---------------------------- MODULE Spec2Model ----------------------------
(***************************************************************************)
(* A model of the image generator form (ImageGeneratorForm, first          *)
(* revision in image-generator-form.tsx) and of the generateImage service. *)
(*                                                                         *)
(* Numbers.  Display dimensions are integers (the code rounds them).  The  *)
(* crop rectangle is built from displayDimensions by halving twice         *)
(* (startCrop) and then only changed by +, -, max and min with integer     *)
(* pointer deltas, so every coordinate is a multiple of 1/4 pixel: crop    *)
(* coordinates are stored in quarter pixels (Q units per pixel).           *)
(* Divisions that the code performs in floating point are carried out on   *)
(* exact fractions n/d, and Math.round is applied to the exact fraction.   *)
(***************************************************************************)
EXTENDS Integers, Sequences, FiniteSets, TLC

\* ------------------------------------------------------------------ bounds
MaxNatural == 8            \* natural width/height drawn for the fit check
MaxContainer == 6          \* container width/height drawn for the fit check

\* The value of a state variable or reference that holds null.
Null == [null |-> TRUE]

Max(a, b) == IF a >= b THEN a ELSE b
Min(a, b) == IF a <= b THEN a ELSE b
Abs(a) == IF a >= 0 THEN a ELSE -a

\* Math.round(n / d) for n >= 0, d > 0: the nearest integer, halves upward.
Round(n, d) == (2 * n + d) \div (2 * d)

(***************************************************************************)
(* The fit-to-container computation that handleSubmit's img.onload,        *)
(* handleApplyResize, handleApplyCrop, handleResetEdits and the gallery    *)
(* onClick all repeat: aspectRatio = w / h; newWidth = containerWidth;     *)
(* newHeight = newWidth / aspectRatio; if newHeight > containerHeight then *)
(* newHeight = containerHeight and newWidth = newHeight * aspectRatio;     *)
(* both are rounded.  w and h may be two numerators over one denominator.  *)
(***************************************************************************)

FitToContainer(w, h, cw, ch) ==
    IF cw * h > ch * w
    THEN [width |-> Round(ch * w, h), height |-> ch]
    ELSE [width |-> cw, height |-> Round(cw * h, w)]


\* ------------------------------------------------------- services/image-generation.ts
\* Strings that the code inspects character by character are sequences of
\* one-character strings.
ImagePrefix == <<"i", "m", "a", "g", "e", "/">>
ErrorWord == <<"e", "r", "r", "o", "r">>
TypePng == <<"i", "m", "a", "g", "e", "/", "p", "n", "g">>
TypeJpeg == <<"i", "m", "a", "g", "e", "/", "j", "p", "e", "g">>
TypeText == <<"t", "e", "x", "t", "/", "p", "l", "a", "i", "n">>
TypeJson == <<"a", "p", "p", "l", "i", "c", "a", "t", "i", "o", "n", "/", "j", "s", "o", "n">>
TypeImag == <<"i", "m", "a", "g">>
TypeNone == <<>>
BodyError == <<"E", "r", "r", "o", "r", ":", " ", "q", "u", "o", "t", "a">>
BodyUpper == <<"I", "N", "T", "E", "R", "N", "A", "L", " ", "E", "R", "R", "O", "R">>
BodyOk == <<"o", "k">>

ErrorHeuristicLength == 200    \* textContent.length < 200
MaxBodyLength == 201           \* longest response body drawn

Pad(n) == [i \in 1..n |-> "x"]

\* String.prototype.toLowerCase on the letters the bodies use.
LowerChar(c) ==
    CASE c = "E" -> "e" [] c = "R" -> "r" [] c = "O" -> "o" [] c = "I" -> "i"
      [] c = "N" -> "n" [] c = "T" -> "t" [] c = "A" -> "a" [] c = "L" -> "l"
      [] OTHER -> c
ToLowerCase(s) == [i \in 1..Len(s) |-> LowerChar(s[i])]

\* String.prototype.startsWith and String.prototype.includes.
StartsWith(s, prefix) ==
    /\ Len(s) >= Len(prefix)
    /\ \A i \in 1..Len(prefix) : s[i] = prefix[i]
Includes(s, word) ==
    \E k \in 0..(Len(s) - Len(word)) : \A i \in 1..Len(word) : s[k + i] = word[i]

\* response.ok
ResponseOk(status) == status >= 200 /\ status <= 299

\* A heuristic that ignores the length of the text.
LooksLikeTextErrorNoLength(body) == Includes(ToLowerCase(body), ErrorWord)

\* The heuristic of generateImage for a 2xx body that is not typed image/*.
LooksLikeTextError(body) ==
    Includes(ToLowerCase(body), ErrorWord) \/ Len(body) < ErrorHeuristicLength

(***************************************************************************)
(* generateImage(prompt) applied to what fetch delivers: a thrown network  *)
(* error or a response [status, type, body].  The result is the blob       *)
(* ([ok |-> TRUE, type, body]) or a thrown Error ([ok |-> FALSE]).         *)
(***************************************************************************)
GenerateImage(resp) ==
    IF resp.thrown THEN [ok |-> FALSE, reason |-> "network"]
    ELSE IF ~ResponseOk(resp.status) THEN [ok |-> FALSE, reason |-> "status"]
    ELSE IF ~StartsWith(resp.type, ImagePrefix) /\ LooksLikeTextError(resp.body)
         THEN [ok |-> FALSE, reason |-> "non-image"]
    ELSE [ok |-> TRUE, type |-> resp.type, body |-> resp.body]

Statuses == {200, 201, 299, 300, 404, 500}
ContentTypes == {TypePng, TypeJpeg, TypeText, TypeJson, TypeImag, TypeNone}
Bodies == {Pad(0), BodyError, BodyUpper, BodyOk,
           Pad(ErrorHeuristicLength - 1), Pad(ErrorHeuristicLength),
           Pad(MaxBodyLength), Pad(MaxBodyLength) \o BodyUpper}
Responses ==
    {[thrown |-> FALSE, status |-> s, type |-> t, body |-> b] :
        s \in Statuses, t \in ContentTypes, b \in Bodies}
    \cup {[thrown |-> TRUE, status |-> 0, type |-> TypeNone, body |-> Pad(0)]}

\* ------------------------------------------- image-generator-form.tsx: geometry
Q == 4                     \* crop coordinates are kept in 1/Q pixel
MinCropSize == 20          \* Math.max(20, ...) in handleMouseMove
MinResizeSize == 50        \* Math.max(50, ...) in handleMouseMove
DefaultDisplaySize == 512  \* useState({ width: 512, height: 512 })
MAX_GALLERY_IMAGES == 20

ContainerWidth == 100      \* previewContainerRef.current.offsetWidth
ContainerHeight == 80      \* previewContainerRef.current.offsetHeight

CornerHandles == {"crop-tl", "crop-tr", "crop-bl", "crop-br"}
CropHandles == {"crop"} \cup CornerHandles
LeftHandles == {"crop-tl", "crop-bl"}
TopHandles == {"crop-tl", "crop-tr"}

\* A default region of half the display size placed in the top left corner.
DefaultCropTopLeft(dd) ==
    [displayX |-> 0,
     displayY |-> 0,
     displayWidth |-> (Q * dd.width) \div 2,
     displayHeight |-> (Q * dd.height) \div 2]

\* startCrop's initial rectangle for display dimensions dd (lines 564-578):
\* half the display size, centered.  In 1/Q pixel: W/2 is 2W, W/4 is W.
DefaultCrop(dd) ==
    [displayX |-> (Q * dd.width - (Q * dd.width) \div 2) \div 2,
     displayY |-> (Q * dd.height - (Q * dd.height) \div 2) \div 2,
     displayWidth |-> (Q * dd.width) \div 2,
     displayHeight |-> (Q * dd.height) \div 2]

(***************************************************************************)
(* handleMouseMove in crop mode (lines 611-671): the rectangle computed    *)
(* from the snapshot ic taken at pointer-down, the display dimensions dd   *)
(* of the render that created the handler, and the pointer offset (dx, dy) *)
(* in pixels.                                                              *)
(***************************************************************************)
CropDrag(handleType, ic, dd, dx, dy) ==
    LET DW == Q * dd.width
        DH == Q * dd.height
        F == Q * MinCropSize
        ex == Q * dx
        ey == Q * dy
        right == ic.displayX + ic.displayWidth
        bottom == ic.displayY + ic.displayHeight
        \* the switch (lines 617-642)
        X1 == CASE handleType = "crop" ->
                     Max(0, Min(ic.displayX + ex, DW - ic.displayWidth))
                [] handleType \in LeftHandles -> ic.displayX + ex
                [] OTHER -> ic.displayX
        Y1 == CASE handleType = "crop" ->
                     Max(0, Min(ic.displayY + ey, DH - ic.displayHeight))
                [] handleType \in TopHandles -> ic.displayY + ey
                [] OTHER -> ic.displayY
        W1 == CASE handleType \in LeftHandles -> ic.displayWidth - ex
                [] handleType \in {"crop-tr", "crop-br"} -> ic.displayWidth + ex
                [] OTHER -> ic.displayWidth
        H1 == CASE handleType \in TopHandles -> ic.displayHeight - ey
                [] handleType \in {"crop-bl", "crop-br"} -> ic.displayHeight + ey
                [] OTHER -> ic.displayHeight
        \* lines 644-645
        X2 == Max(0, X1)
        Y2 == Max(0, Y1)
        \* lines 647-656
        X3 == IF handleType \in LeftHandles /\ X2 + Max(F, W1) > right
              THEN right - Max(F, W1) ELSE X2
        Y3 == IF handleType \in TopHandles /\ Y2 + Max(F, H1) > bottom
              THEN bottom - Max(F, H1) ELSE Y2
        \* lines 658-659
        W4 == Max(F, Min(W1, DW - X3))
        H4 == Max(F, Min(H1, DH - Y3))
        \* lines 661-666
        X5 == IF handleType \in LeftHandles THEN right - W4 ELSE X3
        Y5 == IF handleType \in TopHandles THEN bottom - H4 ELSE Y3
    IN  \* lines 668-671
        [displayX |-> Max(0, Min(X5, DW - W4)),
         displayY |-> Max(0, Min(Y5, DH - H4)),
         displayWidth |-> W4,
         displayHeight |-> H4]

\* A resize drag that clamps to the container but has no lower bound.
ResizeDragNoFloor(w0, od, dx, cw, ch) ==
    LET n == Min(w0 + dx, cw)
    IN  IF n * od.height > ch * od.width
        THEN [width |-> Round(ch * od.width, od.height), height |-> ch]
        ELSE [width |-> n, height |-> Round(n * od.height, od.width)]

(***************************************************************************)
(* handleMouseMove in resize mode (lines 672-686): the display dimensions  *)
(* from the width w0 at pointer-down, the recorded natural dimensions od   *)
(* (numerators over one denominator) and the container cw x ch.            *)
(***************************************************************************)
ResizeDrag(w0, od, dx, cw, ch) ==
    LET n == Max(MinResizeSize, Min(w0 + dx, cw))
    IN  IF n * od.height > ch * od.width
        THEN [width |-> IF ch * od.width < MinResizeSize * od.height
                        THEN MinResizeSize ELSE Round(ch * od.width, od.height),
              height |-> Max(MinResizeSize, ch)]
        ELSE [width |-> Max(MinResizeSize, n),
              height |-> IF n * od.height < MinResizeSize * od.width
                         THEN MinResizeSize ELSE Round(n * od.height, od.width)]

\* ------------------------------------------------------------------- state
VARIABLES
    fitArgs,       \* arguments of the fit computation under check
    fitResult,     \* its result, Null before it ran
    response,      \* what fetch delivers to generateImage
    generated,     \* generateImage's result, Null before it ran
    \* React state and refs of ImageGeneratorForm (lines 33-58)
    isLoading,
    error,
    generatedImageBlobUrl,
    currentDisplayUrl,
    objectUrlRef,
    originalImageDimensions,   \* Null or [width, height, den]: width/den x height/den
    displayDimensions,         \* [width, height], pixels
    isCropping,
    cropArea,                  \* Null or [displayX, displayY, displayWidth, displayHeight], 1/Q pixel
    isResizing,
    resizeHandle,              \* Null or [x, y, width, height]
    galleryImages,             \* sequence of [dataUrl, origin], newest first
    isDbConfigured,            \* "null", "true" or "false"
    toast,                     \* title of the last toast shown, "none" before any
    \* the browser and the services
    revoked,                   \* ids of the object URLs revoked so far
    urlCount,                  \* object URLs created so far
    mounted,                   \* FALSE once the component was unmounted
    localStorage,              \* the data URLs under LOCAL_STORAGE_GALLERY_KEY
    dbRows,                    \* the rows of the remote gallery
    \* handlers in progress
    galleryPc,                 \* "init", "loading", "loaded": the two mount effects
    submits,                   \* handleSubmit calls awaiting a service: [pc, token, prompt, sent]
    imageLoads,                \* new window.Image() loads awaiting onload/onerror
    rasterizations,            \* drawImageToCanvas calls awaiting their image, oldest first
    adds,                      \* handleAddToGallery / handleFileUpload calls
    addCount,                  \* how many of those were started
    editCount,                 \* how many Apply clicks started a rasterization
    drag,                      \* Null or the closure of the mousemove listener
    epoch,                     \* history: session replacements (submit, select) so far
    \* the server side: the persistence layer and the upload backend
    env,                       \* process.env: DB_TYPE, POSTGRES_URL, MONGODB_URL, MONGODB_DB_NAME
    dbCall,                    \* Null or the persistence function in progress
    dbResult,                  \* Null or what the last persistence function gave its caller
    clients,                   \* database clients connected and not closed
    uploadDir,                 \* names of the files in UPLOAD_DIR
    imageRows,                 \* storage URLs of the rows of the backend's images table
    request,                   \* Null or the POST /upload-image request being handled
    answer                     \* Null or the HTTP answer to the last request

fitVars == <<fitArgs, fitResult>>
genVars == <<response, generated>>
imageVars == <<generatedImageBlobUrl, currentDisplayUrl, objectUrlRef,
               originalImageDimensions, displayDimensions>>
modeVars == <<isCropping, cropArea, isResizing, resizeHandle>>
galleryVars == <<galleryImages, isDbConfigured, localStorage, dbRows, galleryPc>>
browserVars == <<revoked, urlCount, mounted>>
asyncVars == <<submits, imageLoads, rasterizations, adds, addCount, editCount>>
formVars == <<isLoading, error, toast, imageVars, modeVars, galleryVars, browserVars,
              asyncVars, drag, epoch>>
serverVars == <<env, dbCall, dbResult, clients, uploadDir, imageRows, request, answer>>
vars == <<fitVars, genVars, formVars, serverVars>>

FitInputs ==
    ((1..MaxNatural) \X (1..MaxNatural) \X (1..MaxContainer) \X (1..MaxContainer))
    \cup {<<1000, 1, 100, 100>>, <<512, 512, 800, 600>>}

FitIdle == fitArgs = <<1, 1, 1, 1>> /\ fitResult = Null
GenIdle == response = Null /\ generated = Null

\* A server without a database and nothing in progress.
NoEnv == [DB_TYPE |-> "", POSTGRES_URL |-> "", MONGODB_URL |-> "", MONGODB_DB_NAME |-> ""]
ServerIdle ==
    /\ env = NoEnv
    /\ dbCall = Null
    /\ dbResult = Null
    /\ clients = 0
    /\ uploadDir = {}
    /\ imageRows = {}
    /\ request = Null
    /\ answer = Null

\* The form as useState/useRef initialise it (lines 33-58), nothing stored yet.
FormMounted ==
    /\ isLoading = FALSE
    /\ error = FALSE
    /\ generatedImageBlobUrl = Null
    /\ currentDisplayUrl = Null
    /\ objectUrlRef = Null
    /\ originalImageDimensions = Null
    /\ displayDimensions = [width |-> DefaultDisplaySize, height |-> DefaultDisplaySize]
    /\ isCropping = FALSE
    /\ cropArea = Null
    /\ isResizing = FALSE
    /\ resizeHandle = Null
    /\ galleryImages = <<>>
    /\ isDbConfigured = "null"
    /\ toast = "none"
    /\ revoked = {}
    /\ urlCount = 0
    /\ mounted = TRUE
    /\ galleryPc = "init"
    /\ submits = {}
    /\ imageLoads = {}
    /\ rasterizations = <<>>
    /\ adds = {}
    /\ addCount = 0
    /\ editCount = 0
    /\ drag = Null
    /\ epoch = 0

FormIdle == FormMounted /\ localStorage = <<>> /\ dbRows = <<>>

\* ------------------------------------------------ the fit computation, applied
FitInit == fitArgs \in FitInputs /\ fitResult = Null /\ GenIdle /\ FormIdle /\ ServerIdle

FitCompute ==
    /\ fitResult = Null
    /\ fitResult' = FitToContainer(fitArgs[1], fitArgs[2], fitArgs[3], fitArgs[4])
    /\ UNCHANGED <<fitArgs, genVars, formVars, serverVars>>

FitAgain ==
    /\ fitResult # Null
    /\ fitArgs' \in FitInputs
    /\ fitResult' = Null
    /\ UNCHANGED <<genVars, formVars, serverVars>>

FitNext == FitCompute \/ FitAgain
SpecFit == FitInit /\ [][FitNext]_vars

\* ------------------------------------------------------ generateImage, applied
GenInit == response \in Responses /\ generated = Null /\ FitIdle /\ FormIdle /\ ServerIdle

GenCall ==
    /\ generated = Null
    /\ generated' = GenerateImage(response)
    /\ UNCHANGED <<response, fitVars, formVars, serverVars>>

GenAgain ==
    /\ generated # Null
    /\ response' \in Responses
    /\ generated' = Null
    /\ UNCHANGED <<fitVars, formVars, serverVars>>

GenNext == GenCall \/ GenAgain
SpecGen == GenInit /\ [][GenNext]_vars


\* ----------------------------------------------------- the form: helpers
MaxEpoch == 2              \* submits and gallery selections per behaviour
MaxUrls == 2               \* object URLs created per behaviour

RECURSIVE GCD(_, _)
GCD(a, b) == IF b = 0 THEN a ELSE GCD(b, a % b)

\* The dimensions width/den x height/den, in lowest terms.
Dims(w, h, d) ==
    LET g == GCD(GCD(w, h), d)
    IN  [width |-> w \div g, height |-> h \div g, den |-> d \div g]

\* URL.createObjectURL(blob): a fresh URL of a blob that decodes to an image
\* of the given natural size (0 x 0: the blob is no image).
BlobUrl(id, size) == [kind |-> "blob", id |-> id, width |-> size[1], height |-> size[2]]
\* canvas.toDataURL('image/png') of a w x h canvas drawn from image id.
DataUrl(id, w, h) == [kind |-> "data", id |-> id, width |-> w, height |-> h]

Decodable(url) == url.width > 0 /\ url.height > 0
\* Whether an image load of url that starts now finds the image: an object
\* URL is resolved when the load starts.
LoadsNow(url) == Decodable(url) /\ ~(url.kind = "blob" /\ url.id \in revoked)

\* imageRef.current is set while the <Image> is rendered (line 771).
ImageShown == ~isLoading /\ currentDisplayUrl # Null /\ originalImageDimensions # Null
\* The edit buttons are rendered (lines 747 and 829).
Toolbar == currentDisplayUrl # Null /\ ~isLoading

Fit(od) == FitToContainer(od.width, od.height, ContainerWidth, ContainerHeight)

\* String.prototype.trim on a sequence of characters.
RECURSIVE TrimLeft(_)
TrimLeft(s) == IF s # <<>> /\ Head(s) = " " THEN TrimLeft(Tail(s)) ELSE s
RECURSIVE TrimRight(_)
TrimRight(s) ==
    IF s # <<>> /\ s[Len(s)] = " " THEN TrimRight(SubSeq(s, 1, Len(s) - 1)) ELSE s
Trim(s) == TrimRight(TrimLeft(s))

\* ----------------------------------------------------- the form: generation
\* resetImageStates (lines 136-149).
ResetImageStates ==
    /\ revoked' = IF objectUrlRef # Null THEN revoked \cup {objectUrlRef.id} ELSE revoked
    /\ objectUrlRef' = Null
    /\ generatedImageBlobUrl' = Null
    /\ currentDisplayUrl' = Null
    /\ originalImageDimensions' = Null
    /\ displayDimensions' = [width |-> DefaultDisplaySize, height |-> DefaultDisplaySize]
    /\ isCropping' = FALSE
    /\ cropArea' = Null
    /\ isResizing' = FALSE
    /\ resizeHandle' = Null

\* The edit session: the displayed image, the generated original, the
\* recorded dimensions and the mode.
Session ==
    [current |-> currentDisplayUrl, original |-> generatedImageBlobUrl,
     natural |-> originalImageDimensions, display |-> displayDimensions,
     cropping |-> isCropping, resizing |-> isResizing]

\* handleSubmit up to its first await (lines 151-164); the button is
\* disabled while isLoading (line 726).  The call keeps the state of the
\* render that created it.
Submit(p) ==
    /\ ~isLoading
    /\ IF Trim(p) = <<>>
       THEN /\ error' = TRUE
            /\ UNCHANGED <<isLoading, toast, imageVars, modeVars, galleryVars,
                           browserVars, asyncVars, drag, epoch>>
       ELSE /\ epoch < MaxEpoch
            /\ isLoading' = TRUE
            /\ error' = FALSE
            /\ ResetImageStates
            /\ epoch' = epoch + 1
            /\ submits' = submits \cup {[pc |-> "moderating", token |-> epoch + 1,
                                        session |-> Session, prompt |-> p,
                                        sent |-> <<>>]}
            /\ UNCHANGED <<toast, galleryVars, urlCount, mounted, imageLoads, rasterizations,
                           adds, addCount, editCount, drag>>
    /\ UNCHANGED <<fitVars, genVars, serverVars>>

\* The catch and finally blocks of handleSubmit (lines 205-215).
SubmitFailed(s) ==
    /\ error' = TRUE
    /\ toast' = "Error"
    /\ isLoading' = FALSE
    /\ submits' = submits \ {s}
    /\ UNCHANGED <<imageVars, modeVars, galleryVars, browserVars, imageLoads,
                   rasterizations, adds, addCount, editCount, drag, epoch>>

\* The prompt the moderation service gives back when it modifies one.
ModifiedPrompt == <<"a", " ", "p", "e", "t">>

\* A handler that always takes the prompt of the moderation result.
FinalPromptOfModeration(prompt, outcome) == ModifiedPrompt

\* finalPrompt of handleSubmit (lines 165-168), the argument of generateImage.
FinalPrompt(prompt, outcome) == IF outcome = "modified" THEN ModifiedPrompt ELSE prompt

\* modifyPromptIfInappropriate returns or throws (lines 164-175); on a result
\* the handler calls generateImage(finalPrompt) (line 177): sent is the
\* prompt of that request.
ModerationReturn(s, outcome) ==
    /\ s \in submits
    /\ s.pc = "moderating"
    /\ IF outcome = "failed"
       THEN SubmitFailed(s)
       ELSE /\ submits' = (submits \ {s}) \cup
                   {[s EXCEPT !.pc = "generating",
                              !.sent = FinalPrompt(s.prompt, outcome)]}
            /\ toast' = IF outcome = "modified" THEN "Prompt Modified" ELSE toast
            /\ UNCHANGED <<isLoading, error, imageVars, modeVars, galleryVars,
                           browserVars, imageLoads, rasterizations, adds, addCount, editCount,
                           drag, epoch>>
    /\ UNCHANGED <<fitVars, genVars, serverVars>>

\* generateImage returns or throws; on a blob, lines 180-203 and the finally
\* block.  size is the natural size of the image the blob holds.  After the
\* unmount the handler still runs: it creates the object URL and assigns
\* the ref, and its state setters do nothing.
GenerateReturn(s, resp, size) ==
    /\ s \in submits
    /\ s.pc = "generating"
    /\ LET r == GenerateImage(resp)
           url == BlobUrl(urlCount + 1,
                          IF StartsWith(resp.type, ImagePrefix) THEN size ELSE <<0, 0>>)
       IN  IF ~r.ok
           THEN SubmitFailed(s)
           ELSE /\ urlCount < MaxUrls
                /\ urlCount' = urlCount + 1
                /\ objectUrlRef' = url
                /\ submits' = submits \ {s}
                /\ IF mounted
                   THEN /\ generatedImageBlobUrl' = url
                        /\ currentDisplayUrl' = url
                        /\ imageLoads' = imageLoads \cup
                               {[handler |-> "submit", url |-> url, ok |-> LoadsNow(url),
                                 token |-> s.token]}
                        /\ isLoading' = FALSE
                   ELSE UNCHANGED <<generatedImageBlobUrl, currentDisplayUrl,
                                    imageLoads, isLoading>>
                /\ UNCHANGED <<error, toast, originalImageDimensions, displayDimensions,
                               modeVars, galleryVars, revoked, mounted, rasterizations,
                               adds, addCount, editCount, drag, epoch>>
    /\ UNCHANGED <<fitVars, genVars, serverVars>>

\* The cleanup of the mount effect (lines 127-134), run when the component
\* is unmounted.
Unmount ==
    /\ mounted
    /\ mounted' = FALSE
    /\ revoked' = IF objectUrlRef # Null THEN revoked \cup {objectUrlRef.id} ELSE revoked
    /\ objectUrlRef' = Null
    /\ UNCHANGED <<isLoading, error, toast, generatedImageBlobUrl, currentDisplayUrl,
                   originalImageDimensions, displayDimensions, modeVars, galleryVars,
                   urlCount, asyncVars, drag, epoch>>
    /\ UNCHANGED <<fitVars, genVars, serverVars>>

\* Whether a pending load may end in onload, and whether in onerror: the
\* fetch of a remote URL may fail at any time.
MayLoad(l) == l.ok \/ (l.url.kind = "remote" /\ Decodable(l.url))
MayFail(l) == ~l.ok \/ l.url.kind = "remote"

\* img.onload of handleSubmit (lines 186-202).
SubmitImageOnload(l) ==
    /\ l \in imageLoads
    /\ l.handler = "submit"
    /\ MayLoad(l)
    /\ imageLoads' = imageLoads \ {l}
    /\ originalImageDimensions' = Dims(l.url.width, l.url.height, 1)
    /\ displayDimensions' = Fit(l.url)
    /\ UNCHANGED <<isLoading, error, toast, generatedImageBlobUrl, currentDisplayUrl,
                   objectUrlRef, modeVars, galleryVars, browserVars, submits,
                   rasterizations, adds, addCount, editCount, drag, epoch>>
    /\ UNCHANGED <<fitVars, genVars, serverVars>>

\* A Crop button that stays enabled in resize mode and a startCrop that
\* leaves the resize session alone.
StartCropKeepsResize ==
    /\ Toolbar
    /\ ImageShown
    /\ isCropping' = TRUE
    /\ cropArea' = DefaultCrop(displayDimensions)
    /\ UNCHANGED <<isLoading, error, toast, imageVars, isResizing, resizeHandle,
                   galleryVars, browserVars, asyncVars, drag, epoch>>
    /\ UNCHANGED <<fitVars, genVars, serverVars>>

\* ----------------------------------------------------- the form: edit modes
\* startCrop (lines 558-579); the button is disabled while resizing (line 752).
StartCrop ==
    /\ Toolbar
    /\ ~isResizing
    /\ ImageShown
    /\ isCropping' = TRUE
    /\ isResizing' = FALSE
    /\ resizeHandle' = Null
    /\ cropArea' = DefaultCrop(displayDimensions)
    /\ UNCHANGED <<isLoading, error, toast, imageVars, galleryVars, browserVars,
                   asyncVars, drag, epoch>>
    /\ UNCHANGED <<fitVars, genVars, serverVars>>

\* startResize (lines 581-592); the button is disabled while cropping (line 749).
StartResize ==
    /\ Toolbar
    /\ ~isCropping
    /\ ImageShown
    /\ isResizing' = TRUE
    /\ isCropping' = FALSE
    /\ cropArea' = Null
    /\ resizeHandle' = [x |-> displayDimensions.width - 10,
                        y |-> displayDimensions.height - 10,
                        width |-> displayDimensions.width,
                        height |-> displayDimensions.height]
    /\ UNCHANGED <<isLoading, error, toast, imageVars, galleryVars, browserVars,
                   asyncVars, drag, epoch>>
    /\ UNCHANGED <<fitVars, genVars, serverVars>>

\* The Cancel button of crop mode (line 834).
CancelCrop ==
    /\ Toolbar
    /\ isCropping
    /\ cropArea # Null
    /\ isCropping' = FALSE
    /\ cropArea' = Null
    /\ UNCHANGED <<isLoading, error, toast, imageVars, isResizing, resizeHandle,
                   galleryVars, browserVars, asyncVars, drag, epoch>>
    /\ UNCHANGED <<fitVars, genVars, serverVars>>

\* ----------------------------------------------------- the form: dragging
\* handleMouseDown (lines 594-605, 696-697): the handles exist while their
\* mode's overlay is rendered (lines 789, 807).  The listener it registers
\* keeps the state of the render that created it.
MouseDown(handleType) ==
    /\ drag = Null
    /\ ImageShown
    /\ IF handleType = "resize"
       THEN isResizing /\ resizeHandle # Null
       ELSE isCropping /\ cropArea # Null
    /\ drag' = [handleType |-> handleType,
                initialCrop |-> cropArea,
                initialResizeDims |-> displayDimensions,
                isCropping |-> isCropping,
                isResizing |-> isResizing,
                displayDimensions |-> displayDimensions,
                originalImageDimensions |-> originalImageDimensions]
    /\ UNCHANGED <<isLoading, error, toast, imageVars, modeVars, galleryVars,
                   browserVars, asyncVars, epoch>>
    /\ UNCHANGED <<fitVars, genVars, serverVars>>

\* handleMouseMove (lines 607-689) for a pointer at (dx, dy) from its start.
MouseMove(dx, dy) ==
    /\ drag # Null
    /\ IF drag.isCropping /\ drag.initialCrop # Null
       THEN /\ cropArea' = CropDrag(drag.handleType, drag.initialCrop,
                                    drag.displayDimensions, dx, dy)
            /\ UNCHANGED <<displayDimensions, resizeHandle>>
       ELSE IF drag.isResizing /\ drag.originalImageDimensions # Null
       THEN LET d == ResizeDrag(drag.initialResizeDims.width,
                                drag.originalImageDimensions, dx,
                                ContainerWidth, ContainerHeight)
            IN  /\ displayDimensions' = d
                /\ resizeHandle' =
                       IF resizeHandle # Null
                       THEN [x |-> d.width - 10, y |-> d.height - 10,
                             width |-> d.width, height |-> d.height]
                       ELSE Null
                /\ UNCHANGED cropArea
       ELSE UNCHANGED <<displayDimensions, resizeHandle, cropArea>>
    /\ UNCHANGED <<isLoading, error, toast, generatedImageBlobUrl, currentDisplayUrl,
                   objectUrlRef, originalImageDimensions, isCropping, isResizing,
                   galleryVars, browserVars, asyncVars, drag, epoch>>
    /\ UNCHANGED <<fitVars, genVars, serverVars>>

\* A pointer-up that commits the drag by rasterizing the dragged region.
MouseUpApplies ==
    /\ drag # Null
    /\ drag' = Null
    /\ rasterizations' = Append(rasterizations,
           [op |-> "crop", source |-> currentDisplayUrl, ok |-> TRUE,
            rect |-> Null, width |-> 0, height |-> 0])
    /\ UNCHANGED <<isLoading, error, toast, imageVars, modeVars, galleryVars,
                   browserVars, submits, imageLoads, adds, addCount, editCount,
                   epoch>>
    /\ UNCHANGED <<fitVars, genVars, serverVars>>

\* handleMouseUp (lines 691-694).
MouseUp ==
    /\ drag # Null
    /\ drag' = Null
    /\ UNCHANGED <<isLoading, error, toast, imageVars, modeVars, galleryVars,
                   browserVars, asyncVars, epoch>>
    /\ UNCHANGED <<fitVars, genVars, serverVars>>

\* onChange of the width and height inputs of resize mode (lines 841-863)
\* for a typed number n: parseInt gives n, and a number that is not positive
\* is ignored.  The other dimension follows from the aspect ratio of the
\* recorded natural size.
ResizeInput(axis, n) ==
    /\ Toolbar
    /\ isResizing
    /\ resizeHandle # Null
    /\ originalImageDimensions # Null
    /\ n > 0
    /\ LET od == originalImageDimensions
           d == IF axis = "width"
                THEN [width |-> n, height |-> Round(n * od.height, od.width)]
                ELSE [width |-> Round(n * od.width, od.height), height |-> n]
       IN  /\ displayDimensions' = d
           /\ resizeHandle' = [x |-> d.width - 10, y |-> d.height - 10,
                               width |-> d.width, height |-> d.height]
    /\ UNCHANGED <<isLoading, error, toast, generatedImageBlobUrl, currentDisplayUrl,
                   objectUrlRef, originalImageDimensions, isCropping, cropArea,
                   isResizing, galleryVars, browserVars, asyncVars, drag, epoch>>
    /\ UNCHANGED <<fitVars, genVars, serverVars>>

\* ----------------------------------------------------- the form: apply
MaxPending == 2             \* drawImageToCanvas calls in flight at once
MaxEdits == 2               \* Apply clicks per behaviour

\* The sequence sq without its i-th element.
RemoveAt(sq, i) == SubSeq(sq, 1, i - 1) \o SubSeq(sq, i + 1, Len(sq))

\* Math.trunc of n/d: what an assignment to canvas.width keeps of a number.
Trunc(n, d) == n \div d

\* handleApplyCrop up to its await (lines 283-305): the rectangle in natural
\* pixels, as fractions.  naturalWidth and naturalHeight are those of the
\* displayed image.
NaturalCrop ==
    [xn |-> cropArea.displayX * currentDisplayUrl.width,
     wn |-> cropArea.displayWidth * currentDisplayUrl.width,
     xd |-> Q * displayDimensions.width,
     yn |-> cropArea.displayY * currentDisplayUrl.height,
     hn |-> cropArea.displayHeight * currentDisplayUrl.height,
     yd |-> Q * displayDimensions.height]

\* A test that lets an empty rectangle pass.
NonPositiveCropNegative(rect) == rect.wn < 0 \/ rect.hn < 0

\* The test of handleApplyCrop on the natural rectangle (line 296).
NonPositiveCrop(rect) == rect.wn <= 0 \/ rect.hn <= 0

\* What a call of handleApplyCrop does before its await (lines 284-299):
\* it returns at once, or reports an invalid area, or draws.
ApplyCropOutcome ==
    IF currentDisplayUrl = Null \/ cropArea = Null \/ originalImageDimensions = Null
       \/ ~ImageShown
    THEN "return"
    ELSE IF NonPositiveCrop(NaturalCrop) THEN "Invalid Crop Area"
    ELSE "draw"

\* The Apply Crop button (rendered in crop mode, line 831) and
\* handleApplyCrop up to its await.
ApplyCropStart ==
    /\ Toolbar
    /\ isCropping
    /\ cropArea # Null
    /\ ApplyCropOutcome # "return"
    /\ Len(rasterizations) < MaxPending
    /\ editCount < MaxEdits
    /\ IF ApplyCropOutcome = "Invalid Crop Area"
       THEN /\ toast' = "Invalid Crop Area"
            /\ UNCHANGED <<rasterizations, editCount>>
       ELSE /\ rasterizations' = Append(rasterizations,
                    [op |-> "crop", source |-> currentDisplayUrl,
                     ok |-> LoadsNow(currentDisplayUrl), rect |-> NaturalCrop,
                     width |-> 0, height |-> 0])
            /\ editCount' = editCount + 1
            /\ UNCHANGED toast
    /\ UNCHANGED <<isLoading, error, imageVars, modeVars, galleryVars, browserVars,
                   submits, imageLoads, adds, addCount, drag, epoch>>
    /\ UNCHANGED <<fitVars, genVars, serverVars>>

\* A test that lets a zero dimension pass.
InvalidDimensionsNegative(w, h) == w < 0 \/ h < 0

\* The test of handleApplyResize on its arguments (line 249).
InvalidDimensions(w, h) == w <= 0 \/ h <= 0

\* handleApplyResize up to its await (lines 247-258), called with the
\* rounded display dimensions (line 866).
ApplyResizeStart ==
    /\ Toolbar
    /\ isResizing
    /\ resizeHandle # Null
    /\ originalImageDimensions # Null
    /\ Len(rasterizations) < MaxPending
    /\ editCount < MaxEdits
    /\ IF InvalidDimensions(displayDimensions.width, displayDimensions.height)
       THEN /\ toast' = "Invalid Dimensions"
            /\ UNCHANGED <<rasterizations, editCount>>
       ELSE /\ rasterizations' = Append(rasterizations,
                    [op |-> "resize", source |-> currentDisplayUrl,
                     ok |-> LoadsNow(currentDisplayUrl), rect |-> Null,
                     width |-> displayDimensions.width,
                     height |-> displayDimensions.height])
            /\ editCount' = editCount + 1
            /\ UNCHANGED toast
    /\ UNCHANGED <<isLoading, error, imageVars, modeVars, galleryVars, browserVars,
                   submits, imageLoads, adds, addCount, drag, epoch>>
    /\ UNCHANGED <<fitVars, genVars, serverVars>>

\* img.onload of drawImageToCanvas (lines 232-239) and the rest of
\* handleApplyCrop (lines 306-324), for the i-th pending call.
ApplyCropDone(i) ==
    /\ i \in 1..Len(rasterizations)
    /\ LET r == rasterizations[i]
           od == Dims(r.rect.wn * r.rect.yd, r.rect.hn * r.rect.xd,
                      r.rect.xd * r.rect.yd)
       IN  /\ r.op = "crop"
           /\ r.ok \/ (r.source.kind = "remote" /\ Decodable(r.source))
           /\ currentDisplayUrl' = DataUrl(r.source.id, Trunc(r.rect.wn, r.rect.xd),
                                           Trunc(r.rect.hn, r.rect.yd))
           /\ originalImageDimensions' = od
           /\ displayDimensions' = Fit(od)
    /\ rasterizations' = RemoveAt(rasterizations, i)
    /\ isCropping' = FALSE
    /\ cropArea' = Null
    /\ toast' = "Crop Applied"
    /\ UNCHANGED <<isLoading, error, generatedImageBlobUrl, objectUrlRef, isResizing,
                   resizeHandle, galleryVars, browserVars, submits, imageLoads, adds,
                   addCount, editCount, drag, epoch>>
    /\ UNCHANGED <<fitVars, genVars, serverVars>>

\* img.onload of drawImageToCanvas and the rest of handleApplyResize
\* (lines 259-277), for the i-th pending call.
ApplyResizeDone(i) ==
    /\ i \in 1..Len(rasterizations)
    /\ LET r == rasterizations[i]
       IN  /\ r.op = "resize"
           /\ r.ok \/ (r.source.kind = "remote" /\ Decodable(r.source))
           /\ currentDisplayUrl' = DataUrl(r.source.id, r.width, r.height)
           /\ originalImageDimensions' = Dims(r.width, r.height, 1)
           /\ displayDimensions' =
                  FitToContainer(r.width, r.height, ContainerWidth, ContainerHeight)
    /\ rasterizations' = RemoveAt(rasterizations, i)
    /\ isResizing' = FALSE
    /\ resizeHandle' = Null
    /\ toast' = "Resize Applied"
    /\ UNCHANGED <<isLoading, error, generatedImageBlobUrl, objectUrlRef, isCropping,
                   cropArea, galleryVars, browserVars, submits, imageLoads, adds,
                   addCount, editCount, drag, epoch>>
    /\ UNCHANGED <<fitVars, genVars, serverVars>>

\* img.onerror of drawImageToCanvas (line 240) and the catch blocks
\* (lines 278-280, 325-327), for the i-th pending call.
ApplyFailed(i) ==
    /\ i \in 1..Len(rasterizations)
    /\ LET r == rasterizations[i]
       IN  /\ ~r.ok \/ r.source.kind = "remote"
           /\ toast' = IF r.op = "crop" THEN "Crop Error" ELSE "Resize Error"
    /\ rasterizations' = RemoveAt(rasterizations, i)
    /\ UNCHANGED <<isLoading, error, imageVars, modeVars, galleryVars, browserVars,
                   submits, imageLoads, adds, addCount, editCount, drag, epoch>>
    /\ UNCHANGED <<fitVars, genVars, serverVars>>

\* ----------------------------------------------------- the form: reset, cancel
\* handleResetEdits up to the image load (lines 330-365).
HandleResetEdits ==
    IF generatedImageBlobUrl # Null
    THEN /\ currentDisplayUrl' = generatedImageBlobUrl
         /\ imageLoads' = imageLoads \cup
                {[handler |-> "reset", url |-> generatedImageBlobUrl,
                  ok |-> LoadsNow(generatedImageBlobUrl), token |-> epoch]}
         /\ toast' = "Edits Reset"
    ELSE UNCHANGED <<currentDisplayUrl, imageLoads, toast>>

\* The Reset button (lines 755-758): rendered for a generated image,
\* disabled in crop and resize mode.
ResetEdits ==
    /\ Toolbar
    /\ generatedImageBlobUrl # Null
    /\ ~(isCropping \/ isResizing)
    /\ HandleResetEdits
    /\ UNCHANGED <<isLoading, error, generatedImageBlobUrl, objectUrlRef,
                   originalImageDimensions, displayDimensions, modeVars, galleryVars,
                   browserVars, submits, rasterizations, adds, addCount, editCount, drag, epoch>>
    /\ UNCHANGED <<fitVars, genVars, serverVars>>

\* img.onload of handleResetEdits (lines 334-358).
ResetImageOnload(l) ==
    /\ l \in imageLoads
    /\ l.handler = "reset"
    /\ MayLoad(l)
    /\ imageLoads' = imageLoads \ {l}
    /\ originalImageDimensions' = Dims(l.url.width, l.url.height, 1)
    /\ displayDimensions' = Fit(l.url)
    /\ isCropping' = FALSE
    /\ cropArea' = Null
    /\ isResizing' = FALSE
    /\ resizeHandle' = Null
    /\ UNCHANGED <<isLoading, error, toast, generatedImageBlobUrl, currentDisplayUrl,
                   objectUrlRef, galleryVars, browserVars, submits, rasterizations,
                   adds, addCount, editCount, drag, epoch>>
    /\ UNCHANGED <<fitVars, genVars, serverVars>>

\* The Cancel button of resize mode (line 867).
CancelResize ==
    /\ Toolbar
    /\ isResizing
    /\ resizeHandle # Null
    /\ originalImageDimensions # Null
    /\ isResizing' = FALSE
    /\ resizeHandle' = Null
    /\ HandleResetEdits
    /\ UNCHANGED <<isLoading, error, generatedImageBlobUrl, objectUrlRef,
                   originalImageDimensions, displayDimensions, isCropping, cropArea,
                   galleryVars, browserVars, submits, rasterizations, adds, addCount, editCount,
                   drag, epoch>>
    /\ UNCHANGED <<fitVars, genVars, serverVars>>

\* ----------------------------------------------------- the form: gallery
\* The first mount effect (lines 61-77): isDatabaseEffectivelyConfigured
\* returns true or false, or throws.
CheckDbConfig(result) ==
    /\ galleryPc = "init"
    /\ isDbConfigured' = IF result = "configured" THEN "true" ELSE "false"
    /\ toast' = IF result = "threw" THEN "Configuration Error" ELSE toast
    /\ galleryPc' = "loading"
    /\ UNCHANGED <<isLoading, error, imageVars, modeVars, galleryImages,
                   localStorage, dbRows, browserVars, asyncVars, drag, epoch>>
    /\ UNCHANGED <<fitVars, genVars, serverVars>>

Slice(sq, n) == IF Len(sq) <= n THEN sq ELSE SubSeq(sq, 1, n)

\* The second mount effect, loadGallery (lines 80-124); ok is FALSE when
\* getImagesFromDb, or reading the local storage, throws.
LoadGallery(ok) ==
    /\ galleryPc = "loading"
    /\ galleryPc' = "loaded"
    /\ galleryImages' =
           Slice(IF ~ok THEN <<>>
                 ELSE IF isDbConfigured = "true" THEN dbRows
                 ELSE [i \in 1..Len(localStorage) |->
                          [dataUrl |-> localStorage[i], origin |-> "local"]],
                 MAX_GALLERY_IMAGES)
    /\ toast' = IF ok THEN toast
                ELSE IF isDbConfigured = "true" THEN "Gallery Load Error"
                ELSE "Local Storage Error"
    /\ UNCHANGED <<isLoading, error, imageVars, modeVars, isDbConfigured,
                   localStorage, dbRows, browserVars, asyncVars, drag, epoch>>
    /\ UNCHANGED <<fitVars, genVars, serverVars>>

\* onClick of a gallery entry (lines 911-938), up to the image load.
SelectGalleryImage(i) ==
    /\ isDbConfigured # "null"
    /\ i \in 1..Len(galleryImages)
    /\ epoch < MaxEpoch
    /\ epoch' = epoch + 1
    /\ currentDisplayUrl' = galleryImages[i].dataUrl
    /\ imageLoads' = imageLoads \cup
           {[handler |-> "select", url |-> galleryImages[i].dataUrl,
             ok |-> LoadsNow(galleryImages[i].dataUrl), token |-> epoch + 1]}
    /\ UNCHANGED <<isLoading, error, toast, generatedImageBlobUrl, objectUrlRef,
                   originalImageDimensions, displayDimensions, modeVars, galleryVars,
                   browserVars, submits, rasterizations, adds, addCount, editCount, drag>>
    /\ UNCHANGED <<fitVars, genVars, serverVars>>

\* img.onload of the gallery entry's onClick (lines 914-934).
SelectImageOnload(l) ==
    /\ l \in imageLoads
    /\ l.handler = "select"
    /\ MayLoad(l)
    /\ imageLoads' = imageLoads \ {l}
    /\ originalImageDimensions' = Dims(l.url.width, l.url.height, 1)
    /\ displayDimensions' = Fit(l.url)
    /\ isCropping' = FALSE
    /\ cropArea' = Null
    /\ isResizing' = FALSE
    /\ resizeHandle' = Null
    /\ generatedImageBlobUrl' = Null
    /\ UNCHANGED <<isLoading, error, toast, currentDisplayUrl, objectUrlRef,
                   galleryVars, browserVars, submits, rasterizations, adds, addCount, editCount,
                   drag, epoch>>
    /\ UNCHANGED <<fitVars, genVars, serverVars>>

\* img.onerror of a pending load: none for handleSubmit's image, a toast for
\* the other two (lines 359-361, 935).
ImageOnerror(l) ==
    /\ l \in imageLoads
    /\ MayFail(l)
    /\ imageLoads' = imageLoads \ {l}
    /\ toast' = CASE l.handler = "reset" -> "Error Resetting"
                  [] l.handler = "select" -> "Gallery Load Error"
                  [] OTHER -> toast
    /\ UNCHANGED <<isLoading, error, imageVars, modeVars, galleryVars, browserVars,
                   submits, rasterizations, adds, addCount, editCount, drag, epoch>>
    /\ UNCHANGED <<fitVars, genVars, serverVars>>

\* onError of the displayed <Image> (lines 784-787).
DisplayedImageError ==
    /\ ImageShown
    /\ \/ ~Decodable(currentDisplayUrl)
       \/ currentDisplayUrl.kind = "remote"
       \/ (currentDisplayUrl.kind = "blob" /\ currentDisplayUrl.id \in revoked)
    /\ currentDisplayUrl' = Null
    /\ toast' = "Image Load Error"
    /\ UNCHANGED <<isLoading, error, generatedImageBlobUrl, objectUrlRef,
                   originalImageDimensions, displayDimensions, modeVars, galleryVars,
                   browserVars, asyncVars, drag, epoch>>
    /\ UNCHANGED <<fitVars, genVars, serverVars>>

\* ----------------------------------------------------- the form: adding
MaxAdds == 2               \* handleAddToGallery / handleFileUpload calls per behaviour
MaxClients == 2            \* database clients left open per behaviour
MaxUploads == 2            \* files written to the upload directory per behaviour

\* The data URL a FileReader makes of a blob or file (lines 452-457, 528-530).
AsDataUrl(url) == IF url.kind = "data" THEN url ELSE DataUrl(url.id, url.width, url.height)
\* The storageUrl the upload service answers with for an image.
StorageUrl(url) == [kind |-> "remote", id |-> url.id, width |-> url.width,
                    height |-> url.height]

Prepend(entry, sq) == Slice(<<entry>> \o sq, MAX_GALLERY_IMAGES)

\* handleAddToGallery up to its first await (lines 410-424, 444-450); the
\* button is disabled in crop and resize mode, before the configuration is
\* known and while loading (line 873).  A data URL is stored locally at once.
AddToGallery ==
    /\ Toolbar
    /\ ~isCropping
    /\ ~isResizing
    /\ isDbConfigured # "null"
    /\ addCount < MaxAdds
    /\ IF Len(galleryImages) >= MAX_GALLERY_IMAGES
       THEN /\ toast' = "Gallery Full"
            /\ UNCHANGED <<isLoading, adds, addCount, galleryImages, localStorage>>
       ELSE IF isDbConfigured = "true"
       THEN /\ isLoading' = TRUE
            /\ addCount' = addCount + 1
            /\ adds' = adds \cup {[id |-> addCount + 1, kind |-> "gallery",
                                   pc |-> "upload", image |-> currentDisplayUrl,
                                   outcome |-> "none"]}
            /\ UNCHANGED <<toast, galleryImages, localStorage>>
       ELSE IF currentDisplayUrl.kind = "blob"
       THEN /\ isLoading' = FALSE
            /\ addCount' = addCount + 1
            /\ adds' = adds \cup {[id |-> addCount + 1, kind |-> "gallery",
                                   pc |-> "local", image |-> currentDisplayUrl,
                                   outcome |-> "none"]}
            /\ UNCHANGED <<toast, galleryImages, localStorage>>
       ELSE /\ isLoading' = FALSE
            /\ addCount' = addCount + 1
            /\ adds' = adds \cup {[id |-> addCount + 1, kind |-> "gallery",
                                   pc |-> "done", image |-> currentDisplayUrl,
                                   outcome |-> "local"]}
            /\ localStorage' = Slice(<<currentDisplayUrl>> \o localStorage,
                                     MAX_GALLERY_IMAGES)
            /\ galleryImages' = Prepend([dataUrl |-> currentDisplayUrl,
                                         origin |-> "local"], galleryImages)
            /\ toast' = "Added to Local Gallery"
    /\ UNCHANGED <<error, imageVars, modeVars, isDbConfigured, dbRows, galleryPc,
                   browserVars, submits, imageLoads, rasterizations, editCount, drag, epoch>>
    /\ UNCHANGED <<fitVars, genVars, serverVars>>

\* handleUploadButtonClick (lines 480-482): the Upload button (disabled before
\* the configuration is known and while loading, line 884) opens the file
\* dialog of the hidden input.
UploadButtonClick ==
    /\ isDbConfigured # "null"
    /\ ~isLoading
    /\ addCount < MaxAdds
    /\ \A a \in adds : a.pc # "dialog"
    /\ addCount' = addCount + 1
    /\ adds' = adds \cup {[id |-> addCount + 1, kind |-> "file", pc |-> "dialog",
                           image |-> Null, outcome |-> "none"]}
    /\ UNCHANGED <<isLoading, error, toast, imageVars, modeVars, galleryVars,
                   browserVars, submits, imageLoads, rasterizations, editCount,
                   drag, epoch>>
    /\ UNCHANGED <<fitVars, genVars, serverVars>>

\* handleFileUpload up to its first await (lines 484-506, 525-552): the
\* onChange of the file input (line 890), for the file picked in the dialog.
FileUpload(a, file) ==
    /\ a \in adds
    /\ a.pc = "dialog"
    /\ IF Len(galleryImages) >= MAX_GALLERY_IMAGES
       THEN /\ toast' = "Gallery Full"
            /\ adds' = adds \ {a}
            /\ UNCHANGED isLoading
       ELSE /\ isLoading' = (isDbConfigured = "true")
            /\ adds' = (adds \ {a}) \cup
                   {[a EXCEPT !.pc = IF isDbConfigured = "true" THEN "upload"
                                     ELSE "local",
                              !.image = file]}
            /\ UNCHANGED toast
    /\ UNCHANGED <<error, imageVars, modeVars, galleryVars, browserVars, submits,
                   imageLoads, rasterizations, addCount, editCount, drag, epoch>>
    /\ UNCHANGED <<fitVars, genVars, serverVars>>

\* uploadImageToBackend returns (lines 378-407), then lines 425-427 and
\* 441-443 (507-508 and 522-524 for a file): result is "ok", or the error of
\* the upload service, or "threw" when dataUrlToFile cannot fetch the
\* displayed URL (line 381, outside the try), which ends the handler.
UploadReturn(a, result) ==
    /\ a \in adds
    /\ a.pc = "upload"
    /\ IF result = "threw"
       THEN /\ a.kind = "gallery"
            /\ a.image.kind = "remote" \/ ~LoadsNow(a.image)
            /\ adds' = (adds \ {a}) \cup
                   {[a EXCEPT !.pc = "done", !.outcome = "upload-threw"]}
            /\ UNCHANGED <<isLoading, toast>>
       ELSE IF result = "ok"
       THEN /\ adds' = (adds \ {a}) \cup {[a EXCEPT !.pc = "save"]}
            /\ isLoading' = FALSE
            /\ UNCHANGED toast
       ELSE /\ adds' = (adds \ {a}) \cup
                   {[a EXCEPT !.pc = "done", !.outcome = "upload-failed"]}
            /\ isLoading' = FALSE
            /\ toast' = "Storage Error"
    /\ UNCHANGED <<error, imageVars, modeVars, galleryVars, browserVars, submits,
                   imageLoads, rasterizations, addCount, editCount, drag, epoch>>
    /\ UNCHANGED <<fitVars, genVars, serverVars>>

\* saveImageToDb returns or throws (lines 428-440, 509-521).
SaveReturn(a, result) ==
    /\ a \in adds
    /\ a.pc = "save"
    /\ IF result = "saved"
       THEN LET entry == [dataUrl |-> StorageUrl(a.image), origin |-> "cloud"]
            IN  /\ dbRows' = <<entry>> \o dbRows
                /\ galleryImages' = Prepend(entry, galleryImages)
                /\ adds' = (adds \ {a}) \cup
                       {[a EXCEPT !.pc = "done", !.outcome = "cloud"]}
                /\ toast' = IF a.kind = "gallery" THEN "Added to Cloud Gallery"
                            ELSE "Image Uploaded"
       ELSE /\ adds' = (adds \ {a}) \cup
                   {[a EXCEPT !.pc = "done",
                              !.outcome = IF result = "null" THEN "save-null"
                                          ELSE "save-threw"]}
            /\ toast' = CASE a.kind = "file" -> "Upload Error"
                          [] result = "null" -> "Save Error"
                          [] OTHER -> "Gallery Error"
            /\ UNCHANGED <<dbRows, galleryImages>>
    /\ UNCHANGED <<isLoading, error, imageVars, modeVars, isDbConfigured, localStorage,
                   galleryPc, browserVars, submits, imageLoads, rasterizations,
                   addCount, editCount, drag, epoch>>
    /\ UNCHANGED <<fitVars, genVars, serverVars>>

\* The local path once the blob or file was read (lines 451-475, 529-551):
\* stored is FALSE when the read or localStorage.setItem fails.
LocalStore(a, stored) ==
    /\ a \in adds
    /\ a.pc = "local"
    /\ IF stored
       THEN /\ localStorage' = Slice(<<AsDataUrl(a.image)>> \o localStorage,
                                     MAX_GALLERY_IMAGES)
            /\ galleryImages' = Prepend([dataUrl |-> AsDataUrl(a.image),
                                         origin |-> "local"], galleryImages)
            /\ adds' = (adds \ {a}) \cup
                   {[a EXCEPT !.pc = "done", !.outcome = "local"]}
            /\ toast' = IF a.kind = "gallery" THEN "Added to Local Gallery"
                        ELSE "Image Uploaded Locally"
       ELSE /\ adds' = (adds \ {a}) \cup
                   {[a EXCEPT !.pc = "done", !.outcome = "local-failed"]}
            /\ toast' = IF a.kind = "gallery" THEN "Local Storage Error"
                        ELSE "Upload Error"
            /\ UNCHANGED <<localStorage, galleryImages>>
    /\ UNCHANGED <<isLoading, error, imageVars, modeVars, isDbConfigured, dbRows,
                   galleryPc, browserVars, submits, imageLoads, rasterizations,
                   addCount, editCount, drag, epoch>>
    /\ UNCHANGED <<fitVars, genVars, serverVars>>

\* ----------------------------------------------------- the form, as a whole
PromptBlank == <<" ">>
PromptText == <<"a", " ", "c", "a", "t">>
PngResponse == [thrown |-> FALSE, status |-> 200, type |-> TypePng, body |-> Pad(0)]
SessionSizes == {<<512, 512>>}
TextResponse == [thrown |-> FALSE, status |-> 200, type |-> TypeText,
                 body |-> Pad(ErrorHeuristicLength)]
ErrorResponse == [thrown |-> FALSE, status |-> 500, type |-> TypeText, body |-> BodyError]
SessionResponses == {PngResponse, TextResponse, ErrorResponse}
StoredImage == [kind |-> "remote", id |-> 0, width |-> 40, height |-> 40]
PickedFile == [kind |-> "file", id |-> 100, width |-> 64, height |-> 48]
\* pointer offsets from the drag start, pixels
EditOffsets == {30}
EditHandles == {"resize"}

Init ==
    /\ FormMounted
    /\ FitIdle
    /\ GenIdle
    /\ ServerIdle
    /\ localStorage = <<>>
    /\ dbRows \in {<<>>, <<[dataUrl |-> StoredImage, origin |-> "cloud"]>>}

\* Generating images and selecting them from the gallery.
SessionNext ==
    \/ \E p \in {PromptBlank, PromptText} : Submit(p)
    \/ \E s \in submits, o \in {"unmodified", "modified", "failed"} :
           ModerationReturn(s, o)
    \/ \E s \in submits, resp \in SessionResponses, size \in SessionSizes :
           GenerateReturn(s, resp, size)
    \/ \E l \in imageLoads : SubmitImageOnload(l)
    \/ \E l \in imageLoads : ResetImageOnload(l)
    \/ \E l \in imageLoads : SelectImageOnload(l)
    \/ \E l \in imageLoads : ImageOnerror(l)
    \/ DisplayedImageError
    \/ ResetEdits
    \/ \E r \in {"configured", "unconfigured", "threw"} : CheckDbConfig(r)
    \/ \E ok \in BOOLEAN : LoadGallery(ok)
    \/ \E i \in 1..Len(galleryImages) : SelectGalleryImage(i)

SpecSession == Init /\ [][SessionNext]_vars

\* Editing one generated image or the images of the gallery.
EditNext ==
    \/ (urlCount = 0 /\ submits = {} /\ Submit(PromptText))
    \/ \E s \in submits : ModerationReturn(s, "unmodified")
    \/ \E s \in submits, size \in SessionSizes : GenerateReturn(s, PngResponse, size)
    \/ \E l \in imageLoads : SubmitImageOnload(l)
    \/ \E l \in imageLoads : ResetImageOnload(l)
    \/ \E l \in imageLoads : SelectImageOnload(l)
    \/ \E l \in imageLoads : ImageOnerror(l)
    \/ StartCrop
    \/ StartResize
    \/ CancelCrop
    \/ CancelResize
    \/ ResetEdits
    \/ ApplyCropStart
    \/ ApplyResizeStart
    \/ \E i \in 1..Len(rasterizations) : ApplyCropDone(i)
    \/ \E i \in 1..Len(rasterizations) : ApplyResizeDone(i)
    \/ \E i \in 1..Len(rasterizations) : ApplyFailed(i)
    \/ \E h \in EditHandles : MouseDown(h)
    \/ \E dx \in EditOffsets, dy \in EditOffsets : MouseMove(dx, dy)
    \/ MouseUp
    \/ \E r \in {"configured", "unconfigured", "threw"} : CheckDbConfig(r)
    \/ \E ok \in BOOLEAN : LoadGallery(ok)
    \/ \E i \in 1..Len(galleryImages) : SelectGalleryImage(i)

SpecEdit == Init /\ [][EditNext]_vars

\* Applying crops and resizes to one generated image, with a gallery entry
\* whose URL holds no image.
ApplySizes == {<<512, 512>>, <<25, 80>>}
\* numbers typed into the width and height inputs
ApplyInputs == {1, 40}
BrokenImage == [kind |-> "remote", id |-> 0, width |-> 0, height |-> 0]

ApplyInit ==
    /\ FormMounted
    /\ FitIdle
    /\ GenIdle
    /\ ServerIdle
    /\ localStorage = <<>>
    /\ dbRows = <<[dataUrl |-> BrokenImage, origin |-> "cloud"]>>

ApplyNext ==
    \/ (urlCount = 0 /\ submits = {} /\ Submit(PromptText))
    \/ \E s \in submits : ModerationReturn(s, "unmodified")
    \/ \E s \in submits, size \in ApplySizes : GenerateReturn(s, PngResponse, size)
    \/ \E l \in imageLoads : SubmitImageOnload(l)
    \/ CheckDbConfig("configured")
    \/ LoadGallery(TRUE)
    \/ \E i \in 1..Len(galleryImages) : SelectGalleryImage(i)
    \/ \E l \in imageLoads : ImageOnerror(l)
    \/ StartCrop
    \/ StartResize
    \/ \E axis \in {"width", "height"}, n \in ApplyInputs : ResizeInput(axis, n)
    \/ ApplyCropStart
    \/ ApplyResizeStart
    \/ \E i \in 1..Len(rasterizations) : ApplyCropDone(i)
    \/ \E i \in 1..Len(rasterizations) : ApplyResizeDone(i)
    \/ \E i \in 1..Len(rasterizations) : ApplyFailed(i)

SpecApply == ApplyInit /\ [][ApplyNext]_vars

\* Filling the gallery with one generated image, the images of the gallery
\* and uploaded files.
GalleryNext ==
    \/ (epoch = 0 /\ Submit(PromptText))
    \/ \E s \in submits : ModerationReturn(s, "unmodified")
    \/ \E s \in submits, size \in SessionSizes : GenerateReturn(s, PngResponse, size)
    \/ \E l \in imageLoads : SubmitImageOnload(l)
    \/ \E r \in {"configured", "unconfigured", "threw"} : CheckDbConfig(r)
    \/ \E ok \in BOOLEAN : LoadGallery(ok)
    \/ AddToGallery
    \/ UploadButtonClick
    \/ \E a \in adds : FileUpload(a, PickedFile)
    \/ \E i \in 1..Len(galleryImages) : SelectGalleryImage(i)
    \/ \E l \in imageLoads : SelectImageOnload(l)
    \/ \E l \in imageLoads : ImageOnerror(l)
    \/ \E a \in adds, r \in {"ok", "too-large", "threw"} : UploadReturn(a, r)
    \/ \E a \in adds, r \in {"saved", "null", "threw"} : SaveReturn(a, r)
    \/ \E a \in adds, ok \in BOOLEAN : LocalStore(a, ok)

SpecGallery == Init /\ [][GalleryNext]_vars

\* Every pending promise settles: the services answer or fail, and the
\* handler awaiting them resumes.
GalleryFairness ==
    /\ WF_vars(\E s \in submits : ModerationReturn(s, "unmodified"))
    /\ WF_vars(\E s \in submits, size \in SessionSizes :
                   GenerateReturn(s, PngResponse, size))
    /\ WF_vars(\E a \in adds, r \in {"ok", "too-large", "threw"} : UploadReturn(a, r))
    /\ WF_vars(\E a \in adds, r \in {"saved", "null", "threw"} : SaveReturn(a, r))
    /\ WF_vars(\E a \in adds, ok \in BOOLEAN : LocalStore(a, ok))

SpecGalleryLive == SpecGallery /\ GalleryFairness

\* The form as a whole; the properties below are checked on its parts.
Next == SessionNext \/ EditNext \/ ApplyNext \/ GalleryNext

Spec == Init /\ [][Next]_vars

\* --------------------------------------------- the crop drag, on its own
DragSizes == {<<512, 512>>, <<1000, 1>>, <<100, 30>>, <<25, 80>>}
\* pointer offsets from the drag start, pixels
DragOffsets == {-60, 30, 60}

DragInit == FormIdle /\ FitIdle /\ GenIdle /\ ServerIdle

DragNext ==
    \/ (epoch = 0 /\ Submit(PromptText))
    \/ \E s \in submits : ModerationReturn(s, "unmodified")
    \/ \E s \in submits, size \in DragSizes : GenerateReturn(s, PngResponse, size)
    \/ \E l \in imageLoads : SubmitImageOnload(l)
    \/ StartCrop
    \/ CancelCrop
    \/ \E h \in CropHandles : MouseDown(h)
    \/ \E dx \in DragOffsets, dy \in DragOffsets : MouseMove(dx, dy)
    \/ MouseUp

SpecDrag == DragInit /\ [][DragNext]_vars

\* Generations, gallery selections and the unmount: the life of the object
\* URLs.  The user acts and images load only while the component is mounted.
UrlInit ==
    /\ FormMounted
    /\ FitIdle
    /\ GenIdle
    /\ ServerIdle
    /\ localStorage = <<>>
    /\ dbRows = <<[dataUrl |-> StoredImage, origin |-> "cloud"]>>

UrlNext ==
    \/ (mounted /\ Submit(PromptText))
    \/ \E s \in submits : ModerationReturn(s, "unmodified")
    \/ \E s \in submits, size \in SessionSizes : GenerateReturn(s, PngResponse, size)
    \/ (mounted /\ \E l \in imageLoads : SubmitImageOnload(l))
    \/ (mounted /\ CheckDbConfig("configured"))
    \/ (mounted /\ LoadGallery(TRUE))
    \/ (mounted /\ \E i \in 1..Len(galleryImages) : SelectGalleryImage(i))
    \/ (mounted /\ \E l \in imageLoads : SelectImageOnload(l))
    \/ (mounted /\ StartCrop)
    \/ (mounted /\ ApplyCropStart)
    \/ (mounted /\ \E i \in 1..Len(rasterizations) : ApplyCropDone(i))
    \/ (mounted /\ ResetEdits)
    \/ (mounted /\ \E l \in imageLoads : ResetImageOnload(l))
    \/ Unmount

SpecUrls == UrlInit /\ [][UrlNext]_vars

\* Corner drags of the crop region and drags of the resize handle on one
\* generated image.
FloorSizes == {<<512, 512>>, <<100, 30>>}

FloorNext ==
    \/ (epoch = 0 /\ Submit(PromptText))
    \/ \E s \in submits : ModerationReturn(s, "unmodified")
    \/ \E s \in submits, size \in FloorSizes : GenerateReturn(s, PngResponse, size)
    \/ \E l \in imageLoads : SubmitImageOnload(l)
    \/ StartCrop
    \/ StartResize
    \/ \E h \in CornerHandles \cup {"resize"} : MouseDown(h)
    \/ \E dx \in DragOffsets, dy \in DragOffsets : MouseMove(dx, dy)
    \/ MouseUp

SpecFloor == DragInit /\ [][FloorNext]_vars


\* Entering and leaving crop and resize mode on a generated image or a
\* stored one, with drags of a crop corner and of the resize handle.
ModeHandles == {"crop-br", "resize"}

ModeNext ==
    \/ (epoch = 0 /\ Submit(PromptText))
    \/ \E s \in submits : ModerationReturn(s, "unmodified")
    \/ \E s \in submits, size \in SessionSizes : GenerateReturn(s, PngResponse, size)
    \/ \E l \in imageLoads : SubmitImageOnload(l)
    \/ CheckDbConfig("configured")
    \/ LoadGallery(TRUE)
    \/ \E i \in 1..Len(galleryImages) : SelectGalleryImage(i)
    \/ \E l \in imageLoads : SelectImageOnload(l)
    \/ DisplayedImageError
    \/ StartCrop
    \/ StartResize
    \/ CancelCrop
    \/ CancelResize
    \/ ApplyCropStart
    \/ \E i \in 1..Len(rasterizations) : ApplyCropDone(i)
    \/ \E h \in ModeHandles : MouseDown(h)
    \/ \E dx \in EditOffsets, dy \in EditOffsets : MouseMove(dx, dy)
    \/ MouseUp

SpecModes == UrlInit /\ [][ModeNext]_vars

\* ------------------------------------------------ a gallery nearly full
\* The gallery a previous session left behind: one entry short of the limit.
StoredEntry(i) ==
    [dataUrl |-> [kind |-> "remote", id |-> 200 + i, width |-> 64, height |-> 48],
     origin |-> "cloud"]
StoredRows == [i \in 1..(MAX_GALLERY_IMAGES - 1) |-> StoredEntry(i)]
StoredLocal == [i \in 1..(MAX_GALLERY_IMAGES - 1) |-> DataUrl(200 + i, 64, 48)]

FullInit ==
    /\ FormMounted
    /\ FitIdle
    /\ GenIdle
    /\ ServerIdle
    /\ localStorage = StoredLocal
    /\ dbRows = StoredRows

\* Opening a stored image and adding to the gallery.
FullNext ==
    \/ \E r \in {"configured", "unconfigured", "threw"} : CheckDbConfig(r)
    \/ \E ok \in BOOLEAN : LoadGallery(ok)
    \/ (galleryImages # <<>> /\ SelectGalleryImage(1))
    \/ \E l \in imageLoads : SelectImageOnload(l)
    \/ \E l \in imageLoads : ImageOnerror(l)
    \/ AddToGallery
    \/ UploadButtonClick
    \/ \E a \in adds : FileUpload(a, PickedFile)
    \/ \E a \in adds, r \in {"ok", "too-large", "threw"} : UploadReturn(a, r)
    \/ \E a \in adds, r \in {"saved", "null", "threw"} : SaveReturn(a, r)
    \/ \E a \in adds, ok \in BOOLEAN : LocalStore(a, ok)

SpecFull == FullInit /\ [][FullNext]_vars

\* ------------------------------------------------- the persistence layer
\* process.env as getDbConfig reads it; an unset variable reads as "".
DbTypes == {"", "none", "postgres", "mongodb", "sqlite"}
Envs ==
    [DB_TYPE : DbTypes, POSTGRES_URL : {"", "postgres://db"},
     MONGODB_URL : {"", "mongodb://db"}, MONGODB_DB_NAME : {"", "gallery"}]

NoDatabase == [dbType |-> "none", postgresUrl |-> "", mongodbUrl |-> "", mongodbDbName |-> ""]

\* getDbConfig (config/db.ts, lines 8-36).
GetDbConfig(e) ==
    IF e.DB_TYPE = "" \/ e.DB_TYPE = "none" THEN NoDatabase
    ELSE IF e.DB_TYPE = "postgres"
    THEN IF e.POSTGRES_URL = "" THEN NoDatabase
         ELSE [NoDatabase EXCEPT !.dbType = "postgres", !.postgresUrl = e.POSTGRES_URL]
    ELSE IF e.DB_TYPE = "mongodb"
    THEN IF e.MONGODB_URL = "" \/ e.MONGODB_DB_NAME = "" THEN NoDatabase
         ELSE [NoDatabase EXCEPT !.dbType = "mongodb", !.mongodbUrl = e.MONGODB_URL,
                                 !.mongodbDbName = e.MONGODB_DB_NAME]
    ELSE NoDatabase

\* A test that looks at DB_TYPE alone.
IsConfiguredByTypeAlone(e) == e.DB_TYPE # "" /\ e.DB_TYPE # "none"

\* isDatabaseEffectivelyConfigured (actions.ts, lines 282-299).
IsDatabaseEffectivelyConfigured(e) ==
    LET config == GetDbConfig(e)
    IN  IF config.dbType = "" \/ config.dbType = "none" THEN FALSE
        ELSE IF config.dbType = "postgres" /\ config.postgresUrl # "" THEN TRUE
        ELSE IF config.dbType = "mongodb" /\ config.mongodbUrl # ""
                /\ config.mongodbDbName # "" THEN TRUE
        ELSE FALSE

\* The branch saveImageToDb and getImagesFromDb take (lines 164-168, 186-190).
Backend(config) ==
    IF config.dbType = "postgres" /\ config.postgresUrl # "" THEN "postgres"
    ELSE IF config.dbType = "mongodb" /\ config.mongodbUrl # ""
            /\ config.mongodbDbName # "" THEN "mongodb"
    ELSE "none"

\* What each function returns when it could not do its work.
Fallback(fn) ==
    CASE fn = "save" -> "null"
      [] fn = "list" -> "empty"
      [] OTHER -> "failure"

\* The catch block an exception raised at step pc of fn reaches: the inner
\* one (followed by the finally that closes the client), the outer one, or
\* none.  saveImageTo*, getImagesFrom* (lines 29-56, 61-81, 87-121,
\* 126-153) nest two try blocks; testDbConnection (lines 225-239, 247-273)
\* has one, and no finally.
Catch(fn, pc) ==
    IF fn = "test" THEN "outer"
    ELSE IF pc \in {"init", "query"} THEN "inner"
    ELSE "outer"

\* The function returns value to its caller.
DbFinish(fn, value) ==
    /\ dbCall' = Null
    /\ dbResult' = [fn |-> fn, value |-> value, threw |-> FALSE]

\* An exception raised at the current step of the function in progress.
DbRaise ==
    LET where == Catch(dbCall.fn, dbCall.pc)
    IN  IF where = "inner"
        THEN /\ dbCall' = [dbCall EXCEPT !.pc = "close", !.value = Fallback(dbCall.fn)]
             /\ UNCHANGED dbResult
        ELSE IF where = "outer"
        THEN DbFinish(dbCall.fn, Fallback(dbCall.fn))
        ELSE /\ dbCall' = Null
             /\ dbResult' = [fn |-> dbCall.fn, value |-> "none", threw |-> TRUE]

\* A call of isDatabaseEffectivelyConfigured.
IsConfiguredCall ==
    /\ dbCall = Null
    /\ dbResult' = [fn |-> "isConfigured",
                    value |-> IF IsDatabaseEffectivelyConfigured(env)
                              THEN "true" ELSE "false",
                    threw |-> FALSE]
    /\ UNCHANGED <<env, dbCall, clients, uploadDir, imageRows, request, answer>>
    /\ UNCHANGED <<fitVars, genVars, formVars>>

\* saveImageToDb ("save") or getImagesFromDb ("list") up to the connection
\* (lines 162-205, and the first lines of the backend function).
DbDispatch(fn) ==
    /\ dbCall = Null
    /\ clients < MaxClients
    /\ LET b == Backend(GetDbConfig(env))
       IN  IF b = "none"
           THEN DbFinish(fn, Fallback(fn))
           ELSE /\ dbCall' = [fn |-> fn, backend |-> b, pc |-> "connect",
                              value |-> "none"]
                /\ dbResult' = Null
    /\ UNCHANGED <<env, clients, uploadDir, imageRows, request, answer>>
    /\ UNCHANGED <<fitVars, genVars, formVars>>

\* testDbConnection up to the connection (lines 207-227, 241-249).
TestDbConnection ==
    /\ dbCall = Null
    /\ clients < MaxClients
    /\ LET config == GetDbConfig(env)
       IN  IF config.dbType = "" \/ config.dbType = "none"
           THEN DbFinish("test", "success")
           ELSE IF config.dbType = "postgres" /\ config.postgresUrl = ""
           THEN DbFinish("test", "failure")
           ELSE IF config.dbType = "mongodb"
                   /\ (config.mongodbUrl = "" \/ config.mongodbDbName = "")
           THEN DbFinish("test", "failure")
           ELSE IF config.dbType \in {"postgres", "mongodb"}
           THEN /\ dbCall' = [fn |-> "test", backend |-> config.dbType,
                              pc |-> "connect", value |-> "none"]
                /\ dbResult' = Null
           ELSE DbFinish("test", "failure")
    /\ UNCHANGED <<env, clients, uploadDir, imageRows, request, answer>>
    /\ UNCHANGED <<fitVars, genVars, formVars>>

\* require(...) and client.connect() (lines 31-33, 62-64, 88-90, 127-129,
\* 226-228, 248-250) succeed or throw.
DbConnect(ok) ==
    /\ dbCall # Null
    /\ dbCall.pc = "connect"
    /\ IF ok
       THEN /\ clients' = clients + 1
            /\ dbCall' = [dbCall EXCEPT !.pc = IF dbCall.fn = "test"
                                                   /\ dbCall.backend = "mongodb"
                                                THEN "ping" ELSE "init"]
            /\ UNCHANGED dbResult
       ELSE /\ DbRaise
            /\ UNCHANGED clients
    /\ UNCHANGED <<env, uploadDir, imageRows, request, answer>>
    /\ UNCHANGED <<fitVars, genVars, formVars>>

\* db.command({ping: 1}) of testDbConnection (line 253).
DbPing(ok) ==
    /\ dbCall # Null
    /\ dbCall.pc = "ping"
    /\ IF ok
       THEN dbCall' = [dbCall EXCEPT !.pc = "init"] /\ UNCHANGED dbResult
       ELSE DbRaise
    /\ UNCHANGED <<env, clients, uploadDir, imageRows, request, answer>>
    /\ UNCHANGED <<fitVars, genVars, formVars>>

\* ensurePostgresTableInitialized (lines 6-23), db.createCollection (lines
\* 94-104, 256-267; "exists" is its NamespaceExists error) or
\* db.listCollections (lines 134-138; "absent" is its empty answer).
DbInitialise(outcome) ==
    /\ dbCall # Null
    /\ dbCall.pc = "init"
    /\ outcome = "exists" => dbCall.backend = "mongodb" /\ dbCall.fn # "list"
    /\ outcome = "absent" => dbCall.backend = "mongodb" /\ dbCall.fn = "list"
    /\ IF outcome = "error"
       THEN DbRaise
       ELSE /\ dbCall' =
                  IF dbCall.fn = "test"
                  THEN [dbCall EXCEPT !.pc = "close", !.value = "success"]
                  ELSE IF outcome = "absent"
                  THEN [dbCall EXCEPT !.pc = "close", !.value = "empty"]
                  ELSE [dbCall EXCEPT !.pc = "query"]
            /\ UNCHANGED dbResult
    /\ UNCHANGED <<env, clients, uploadDir, imageRows, request, answer>>
    /\ UNCHANGED <<fitVars, genVars, formVars>>

\* The INSERT or SELECT, insertOne or find (lines 37-46, 68-70, 107-111,
\* 140-147): "norow" is an INSERT ... RETURNING that returns no row.
DbQuery(outcome) ==
    /\ dbCall # Null
    /\ dbCall.pc = "query"
    /\ outcome = "norow" => dbCall.fn = "save" /\ dbCall.backend = "postgres"
    /\ IF outcome = "error"
       THEN DbRaise
       ELSE /\ dbCall' = [dbCall EXCEPT
                  !.pc = "close",
                  !.value = IF outcome = "norow" THEN "null"
                            ELSE IF dbCall.fn = "save" THEN "saved" ELSE "rows"]
            /\ UNCHANGED dbResult
    /\ UNCHANGED <<env, clients, uploadDir, imageRows, request, answer>>
    /\ UNCHANGED <<fitVars, genVars, formVars>>

\* client.end() or client.close() (lines 51, 75, 116, 151, 232, 270), which
\* releases the connection also when it reports an error.
DbClose(ok) ==
    /\ dbCall # Null
    /\ dbCall.pc = "close"
    /\ clients' = clients - 1
    /\ IF ok THEN DbFinish(dbCall.fn, dbCall.value) ELSE DbRaise
    /\ UNCHANGED <<env, uploadDir, imageRows, request, answer>>
    /\ UNCHANGED <<fitVars, genVars, formVars>>

DbInit ==
    /\ FormIdle
    /\ FitIdle
    /\ GenIdle
    /\ env \in Envs
    /\ dbCall = Null
    /\ dbResult = Null
    /\ clients = 0
    /\ uploadDir = {}
    /\ imageRows = {}
    /\ request = Null
    /\ answer = Null

DbNext ==
    \/ IsConfiguredCall
    \/ \E fn \in {"save", "list"} : DbDispatch(fn)
    \/ TestDbConnection
    \/ \E ok \in BOOLEAN : DbConnect(ok)
    \/ \E ok \in BOOLEAN : DbPing(ok)
    \/ \E o \in {"ok", "exists", "absent", "error"} : DbInitialise(o)
    \/ \E o \in {"row", "norow", "error"} : DbQuery(o)
    \/ \E ok \in BOOLEAN : DbClose(ok)

SpecDb == DbInit /\ [][DbNext]_vars

\* ---------------------------------------------------- the upload backend
\* The multipart field uploadImageToBackend puts the image in (line 389) and
\* the field upload.single reads (backend/src/index.ts, line 134).
FormField == "image"
UploadField == "file"

\* A backend that reads the image from the field the form sends.
UploadFieldOfForm == "image"

\* The environments in which the backend's db.ts loads (lines 7-34).
BackendEnvs ==
    {e \in Envs : /\ e.DB_TYPE # ""
                  /\ e.DB_TYPE = "postgres" => e.POSTGRES_URL # ""
                  /\ e.DB_TYPE = "mongodb" => e.MONGODB_URL # ""}

\* A POST /upload-image arrives: from uploadImageToBackend (lines 388-395),
\* or from another client that uses the field "file" or sends no file.
PostUpload(client, field) ==
    /\ IF request = Null THEN TRUE ELSE request.stage = "answered"
    /\ Cardinality(uploadDir) < MaxUploads
    /\ client = "form" => field = FormField
    /\ request' = [client |-> client, field |-> field, stage |-> "received",
                   file |-> 0, dirBefore |-> uploadDir, rowsBefore |-> imageRows]
    /\ answer' = Null
    /\ UNCHANGED <<env, dbCall, dbResult, clients, uploadDir, imageRows>>
    /\ UNCHANGED <<fitVars, genVars, formVars>>

\* upload.single (line 134) with the disk storage of lines 122-132: a file
\* in the expected field is written to UPLOAD_DIR under a fresh name; a
\* file in any other field is an error handed to the global error handler
\* (lines 194-197), which answers in plain text.
MulterSingle ==
    /\ request # Null
    /\ request.stage = "received"
    /\ IF request.field = "none"
       THEN /\ request' = [request EXCEPT !.stage = "handler"]
            /\ UNCHANGED <<uploadDir, answer>>
       ELSE IF request.field = UploadField
       THEN /\ request' = [request EXCEPT !.stage = "handler",
                                          !.file = Cardinality(uploadDir) + 1]
            /\ uploadDir' = uploadDir \cup {Cardinality(uploadDir) + 1}
            /\ UNCHANGED answer
       ELSE /\ request' = [request EXCEPT !.stage = "answered"]
            /\ answer' = [status |-> 500, json |-> FALSE, error |-> FALSE,
                          storageUrl |-> 0]
            /\ UNCHANGED uploadDir
    /\ UNCHANGED <<env, dbCall, dbResult, clients, imageRows>>
    /\ UNCHANGED <<fitVars, genVars, formVars>>

\* The route handler (lines 134-191); inserted tells whether the INSERT or
\* insertOne (and, for mongodb, the connect before it) succeeds.
UploadHandler(inserted) ==
    /\ request # Null
    /\ request.stage = "handler"
    /\ request' = [request EXCEPT !.stage = "answered"]
    /\ IF request.file = 0
       THEN /\ answer' = [status |-> 400, json |-> TRUE, error |-> TRUE,
                          storageUrl |-> 0]
            /\ UNCHANGED imageRows
       ELSE IF env.DB_TYPE \in {"postgres", "mongodb"} /\ inserted
       THEN /\ imageRows' = imageRows \cup {request.file}
            /\ answer' = [status |-> 200, json |-> TRUE, error |-> FALSE,
                          storageUrl |-> request.file]
       ELSE /\ answer' = [status |-> 500, json |-> TRUE, error |-> TRUE,
                          storageUrl |-> 0]
            /\ UNCHANGED imageRows
    /\ UNCHANGED <<env, dbCall, dbResult, clients, uploadDir>>
    /\ UNCHANGED <<fitVars, genVars, formVars>>

\* What uploadImageToBackend returns for an answer (lines 396-406): the
\* storage URL, or null (0) after an error answer or a body that is not JSON.
UploadResult(a) ==
    IF a.status = 200 /\ a.json THEN a.storageUrl ELSE 0

UploadInit ==
    /\ FormIdle
    /\ FitIdle
    /\ GenIdle
    /\ env \in BackendEnvs
    /\ dbCall = Null
    /\ dbResult = Null
    /\ clients = 0
    /\ uploadDir = {}
    /\ imageRows = {}
    /\ request = Null
    /\ answer = Null

UploadNext ==
    \/ PostUpload("form", FormField)
    \/ \E field \in {UploadField, "none"} : PostUpload("other", field)
    \/ MulterSingle
    \/ \E inserted \in BOOLEAN : UploadHandler(inserted)

SpecUpload == UploadInit /\ [][UploadNext]_vars

\* ------------------------------------------------------------ crop geometry
\* The corner of rectangle c diagonally opposite the handle.
OppositeCorner(handleType, c) ==
    CASE handleType = "crop-br" -> <<c.displayX, c.displayY>>
      [] handleType = "crop-bl" -> <<c.displayX + c.displayWidth, c.displayY>>
      [] handleType = "crop-tr" -> <<c.displayX, c.displayY + c.displayHeight>>
      [] handleType = "crop-tl" ->
             <<c.displayX + c.displayWidth, c.displayY + c.displayHeight>>

\* C1: in every reachable state of a crop session the crop region lies
\* inside the displayed image: 0 <= x, 0 <= y, x + width <= displayWidth and
\* y + height <= displayHeight.
C1_CropInsideDisplay ==
    cropArea # Null =>
        /\ cropArea.displayX >= 0
        /\ cropArea.displayY >= 0
        /\ cropArea.displayX + cropArea.displayWidth <= Q * displayDimensions.width
        /\ cropArea.displayY + cropArea.displayHeight <= Q * displayDimensions.height

\* C2: while a corner handle is dragged, the corner of the crop region
\* diagonally opposite the handle stays where it was at pointer-down.
C2_OppositeCornerPinned ==
    (/\ drag # Null
     /\ drag.handleType \in CornerHandles
     /\ drag.isCropping
     /\ drag.initialCrop # Null
     /\ cropArea # Null)
    => OppositeCorner(drag.handleType, cropArea)
           = OppositeCorner(drag.handleType, drag.initialCrop)

\* ------------------------------------------------------------ fit to container
\* C3: the fit returns a width and a height that are both >= 1, both within
\* the container, and in the natural aspect ratio to within one pixel.
C3_FitContract ==
    fitResult # Null =>
        LET w == fitArgs[1]
            h == fitArgs[2]
        IN  /\ fitResult.width >= 1
            /\ fitResult.height >= 1
            /\ fitResult.width <= fitArgs[3]
            /\ fitResult.height <= fitArgs[4]
            /\ \/ Abs(fitResult.height * w - fitResult.width * h) <= w
               \/ Abs(fitResult.width * h - fitResult.height * w) <= h


\* C4: Cancel, from crop mode or from resize mode, returns the session to
\* viewing, discards the pending rectangle, and leaves the displayed image
\* as it was immediately before the cancel.
C4_CancelKeepsCurrent ==
    [][(CancelCrop \/ CancelResize) =>
           /\ currentDisplayUrl' = currentDisplayUrl
           /\ ~isCropping'
           /\ ~isResizing'
           /\ cropArea' = Null
           /\ resizeHandle' = Null]_vars

\* C5: when a generation attempt fails and no image was selected meanwhile,
\* the displayed image, the original, the recorded dimensions and the mode
\* are those of the moment of the submit.
C5_FailedGenerationLeavesSession ==
    [][\A s \in submits :
           (s.token = epoch /\ submits' = submits \ {s} /\ urlCount' = urlCount)
               => Session' = s.session]_vars

\* C6: a generation's response, and its image's onload, that complete after
\* a newer submit or a gallery selection change neither the displayed image,
\* nor the original, nor the recorded dimensions.
C6_StaleCompletionDiscarded ==
    [][/\ \A s \in submits :
              (s.token # epoch /\ s.pc = "generating" /\ s \notin submits')
                  => UNCHANGED <<currentDisplayUrl, generatedImageBlobUrl,
                                 originalImageDimensions, displayDimensions>>
       /\ \A l \in imageLoads :
              (l.token # epoch /\ l.handler = "submit" /\ l \notin imageLoads')
                  => UNCHANGED <<currentDisplayUrl, generatedImageBlobUrl,
                                 originalImageDimensions, displayDimensions>>]_vars

\* C7: at most one drawImageToCanvas call is awaiting its image load at any
\* time.
C7_OneRasterizationInFlight == Len(rasterizations) <= 1

\* C8: when the upload service answers with an error, or the gallery save
\* returns null, no remote entry is created for the image and the image is
\* in the local storage.
C8_FallbackStoresLocally ==
    \A a \in adds :
        (a.pc = "done" /\ a.outcome \in {"upload-failed", "save-null"}) =>
            /\ \A i \in 1..Len(dbRows) : dbRows[i].dataUrl # StorageUrl(a.image)
            /\ \E i \in 1..Len(localStorage) : localStorage[i] = AsDataUrl(a.image)

\* C10: the Reset button leaves the form in no mode, without a pending
\* rectangle, and showing the image the session holds (the one generated or
\* selected last, which the displayed image was made from) as it was before
\* any edit.
C10_ResetRestoresOriginal ==
    [][ResetEdits =>
           /\ currentDisplayUrl'.id = currentDisplayUrl.id
           /\ currentDisplayUrl' = generatedImageBlobUrl'
           /\ ~isCropping'
           /\ ~isResizing'
           /\ cropArea' = Null]_vars


\* --------------------------------------------------------------- generateImage
IsImageType(t) == Len(t) >= 6 /\ SubSeq(t, 1, 6) = ImagePrefix
ContainsErrorWord(b) ==
    \E i \in 1..Len(b) : i + 4 <= Len(b) /\ SubSeq(ToLowerCase(b), i, i + 4) = ErrorWord

\* C9 as claimed: generateImage returns a blob only for a 2xx response whose
\* content type starts with image/.
C9_BlobOnlyForImage ==
    (generated # Null /\ generated.ok) =>
        /\ ~response.thrown
        /\ ResponseOk(response.status)
        /\ IsImageType(response.type)

\* C9 as amended: generateImage fails on a thrown fetch, on every non-2xx
\* response and on every 2xx response that is not typed image/* and whose
\* text contains "error" (in any case) or is shorter than 200 characters;
\* it returns the body as the blob for a 2xx response typed image/*, and also
\* for one not typed image/* whose text has at least 200 characters and does
\* not contain "error".
C9_BlobUnlessErrorText ==
    generated # Null =>
        /\ generated.ok <=>
              /\ ~response.thrown
              /\ response.status \in 200..299
              /\ \/ IsImageType(response.type)
                 \/ Len(response.body) >= 200 /\ ~ContainsErrorWord(response.body)
        /\ generated.ok =>
              generated.type = response.type /\ generated.body = response.body

\* A 2xx response that is not typed image/* was returned as the blob.
C9_NonImageReturned ==
    /\ generated # Null
    /\ generated.ok
    /\ ~IsImageType(response.type)
    /\ ResponseOk(response.status)


\* An edit operation: entering or leaving a mode, a drag event, an apply
\* (its start or its completion) or a reset (its click or its onload).
EditStep ==
    \/ StartCrop
    \/ StartResize
    \/ CancelCrop
    \/ CancelResize
    \/ ResetEdits
    \/ ApplyCropStart
    \/ ApplyResizeStart
    \/ \E i \in 1..Len(rasterizations) :
           ApplyCropDone(i) \/ ApplyResizeDone(i) \/ ApplyFailed(i)
    \/ \E l \in imageLoads : ResetImageOnload(l)
    \/ \E h \in CropHandles \cup {"resize"} : MouseDown(h)
    \/ \E dx \in EditOffsets, dy \in EditOffsets : MouseMove(dx, dy)
    \/ MouseUp

\* C11: no edit operation changes the original; a generation that returns
\* an image makes that image the original; and once a selected gallery
\* image has loaded, the original is that image.
C11_OriginalFollowsImage ==
    [][/\ EditStep => UNCHANGED generatedImageBlobUrl
       /\ (\E s \in submits : s.pc = "generating" /\ s \notin submits'
                              /\ urlCount' # urlCount)
              => (generatedImageBlobUrl' = currentDisplayUrl'
                  /\ generatedImageBlobUrl' # Null)
       /\ \A l \in imageLoads :
              SelectImageOnload(l) => generatedImageBlobUrl' = l.url]_vars


C13_InvalidResizeRejected ==
    [][(ApplyResizeStart
        /\ (displayDimensions.width <= 0 \/ displayDimensions.height <= 0))
           => /\ toast' = "Invalid Dimensions"
              /\ UNCHANGED <<currentDisplayUrl, generatedImageBlobUrl,
                             originalImageDimensions, displayDimensions,
                             modeVars, rasterizations>>]_vars

\* An Apply Resize of a zero width or height was rejected.
C13_ResizeRejected ==
    /\ toast = "Invalid Dimensions"
    /\ isResizing
    /\ displayDimensions.width = 0 \/ displayDimensions.height = 0
    /\ rasterizations = <<>>


\* C14: a completed Apply Crop replaces the displayed image with a raster
\* whose natural width and height are the crop region converted to natural
\* coordinates (in whole pixels), makes that the recorded natural size,
\* recomputes the display dimensions for it, clears the crop region and
\* leaves crop mode.
C14_CropReplacesCurrent ==
    [][\A i \in 1..Len(rasterizations) :
          ApplyCropDone(i) =>
              LET r == rasterizations[i]
              IN  /\ currentDisplayUrl'.width = Trunc(r.rect.wn, r.rect.xd)
                  /\ currentDisplayUrl'.height = Trunc(r.rect.hn, r.rect.yd)
                  /\ originalImageDimensions' =
                         Dims(currentDisplayUrl'.width, currentDisplayUrl'.height, 1)
                  /\ displayDimensions' =
                         FitToContainer(currentDisplayUrl'.width,
                                        currentDisplayUrl'.height,
                                        ContainerWidth, ContainerHeight)
                  /\ cropArea' = Null
                  /\ ~isCropping']_vars

\* C15: a completed Apply Resize replaces the displayed image with a raster
\* of exactly the requested width and height and leaves resize mode with
\* the resize state cleared; and a resize that follows a crop at once and
\* asks for the crop's width or height again (the other side follows from
\* the recorded aspect ratio) gives back the pixel dimensions of the crop.
C15_ResizeRoundTrip ==
    [][\A i \in 1..Len(rasterizations) :
          ApplyResizeDone(i) =>
              LET r == rasterizations[i]
              IN  /\ currentDisplayUrl'.width = r.width
                  /\ currentDisplayUrl'.height = r.height
                  /\ ~isResizing'
                  /\ resizeHandle' = Null
                  /\ (/\ toast = "Crop Applied"
                      /\ r.source = currentDisplayUrl
                      /\ r.width = r.source.width \/ r.height = r.source.height)
                         => /\ currentDisplayUrl'.width = r.source.width
                            /\ currentDisplayUrl'.height = r.source.height]_vars


C17_DragFloors ==
    [][\/ drag = Null
       \/ IF drag.isCropping /\ drag.initialCrop # Null
          THEN /\ cropArea' # Null
               /\ cropArea'.displayWidth >= 20 * Q
               /\ cropArea'.displayHeight >= 20 * Q
          ELSE drag.isResizing =>
                   /\ displayDimensions'.width >= 50
                   /\ displayDimensions'.height >= 50
       \/ ~(\E dx \in DragOffsets, dy \in DragOffsets : MouseMove(dx, dy))]_vars

\* A corner was dragged inwards by more than the region's size and the
\* region stopped at 20 pixels.
C17_CropHeldAtFloor ==
    /\ drag # Null
    /\ drag.handleType \in CornerHandles
    /\ drag.initialCrop.displayWidth > 20 * Q
    /\ drag.initialCrop.displayHeight > 20 * Q
    /\ cropArea # Null
    /\ cropArea.displayWidth = 20 * Q
    /\ cropArea.displayHeight = 20 * Q


\* C18: crop mode and resize mode are never active together, also while an
\* Apply Crop or Apply Resize is pending; starting crop mode leaves no resize
\* session and starting resize mode leaves no crop session and no region.
C18_ModesExclusive ==
    /\ [](~(isCropping /\ isResizing))
    /\ [][/\ StartCrop => (isCropping' /\ ~isResizing' /\ resizeHandle' = Null)
          /\ StartResize => (isResizing' /\ ~isCropping' /\ cropArea' = Null)]_vars

\* Crop mode was entered while an Apply Resize was still pending.
C18_CropDuringPendingResize ==
    /\ isCropping
    /\ cropArea # Null
    /\ \E i \in 1..Len(rasterizations) : rasterizations[i].op = "resize"


\* The object URLs created and not revoked.
UnreleasedUrls == (1..urlCount) \ revoked

\* C19: at most one object URL is unreleased at any time, none is unreleased
\* once the component is unmounted, and while it is mounted neither the
\* displayed image nor the kept original is a revoked object URL.
C19_ObjectUrlsReleased ==
    /\ Cardinality(UnreleasedUrls) <= 1
    /\ ~mounted => UnreleasedUrls = {}
    /\ mounted =>
          /\ currentDisplayUrl # Null /\ currentDisplayUrl.kind = "blob"
                => currentDisplayUrl.id \notin revoked
          /\ generatedImageBlobUrl # Null => generatedImageBlobUrl.id \notin revoked


\* C20: whenever the loading flag is set it is eventually cleared, whatever
\* fails in between, so that the actions it disables can be invoked again.
C20_LoadingEventuallyCleared == isLoading ~> ~isLoading


Outcomes == {"unmodified", "modified", "failed"}

\* C21: the generation request of a submit is sent when its moderation
\* call returns, once, with the moderated prompt if the moderation modified
\* the prompt and with the user's prompt otherwise; none is sent when the
\* moderation fails, and no request starts in any other way; a blank prompt
\* starts no call and changes no image state.
C21_GenerationAfterModeration ==
    [][/\ \A s \in submits, o \in Outcomes :
             ModerationReturn(s, o) =>
                 LET mine == {g \in submits' : g.token = s.token}
                 IN  IF o = "failed"
                     THEN mine = {}
                     ELSE /\ Cardinality(mine) = 1
                          /\ \A g \in mine :
                                /\ g.pc = "generating"
                                /\ g.sent = IF o = "modified" THEN ModifiedPrompt
                                            ELSE s.prompt
       /\ \A g \in submits' \ submits :
             IF g.pc = "generating"
             THEN \E s \in submits \ submits' :
                     s.pc = "moderating" /\ s.token = g.token
             ELSE g.sent = <<>> /\ Trim(g.prompt) # <<>>
       /\ Submit(PromptBlank) =>
             UNCHANGED <<submits, imageVars, modeVars, isLoading>>]_vars

\* A generation request carrying the moderated prompt is in flight.
C21_ModeratedPromptSent ==
    \E g \in submits :
        /\ g.pc = "generating"
        /\ g.prompt = PromptText
        /\ g.sent = ModifiedPrompt
        /\ toast = "Prompt Modified"

\* C22: isDatabaseEffectivelyConfigured answers true exactly for the
\* environments in which saveImageToDb and getImagesFromDb go to a backend;
\* in every other environment saveImageToDb returns null and getImagesFromDb
\* returns the empty list; no function of the layer ever throws.
C22_ConfiguredIffDispatched ==
    /\ [](/\ dbResult # Null => ~dbResult.threw
          /\ (dbResult # Null /\ dbResult.fn = "isConfigured") =>
                (dbResult.value = "true" <=> Backend(GetDbConfig(env)) # "none")
          /\ (dbCall # Null /\ dbCall.fn \in {"save", "list"}) =>
                IsDatabaseEffectivelyConfigured(env)
          /\ (dbResult # Null /\ dbResult.fn \in {"save", "list"}
                /\ ~IsDatabaseEffectivelyConfigured(env)) =>
                dbResult.value = Fallback(dbResult.fn))
    /\ [][\A fn \in {"save", "list"} :
             DbDispatch(fn) =>
                 IF IsDatabaseEffectivelyConfigured(env)
                 THEN dbCall' # Null /\ dbCall'.fn = fn
                      /\ dbCall'.backend = env.DB_TYPE
                 ELSE dbCall' = Null /\ dbResult'.fn = fn]_vars

\* saveImageToDb returned null because postgres is selected without its URL.
C22_SaveWithoutUrl ==
    /\ env.DB_TYPE = "postgres"
    /\ env.POSTGRES_URL = ""
    /\ dbResult # Null
    /\ dbResult.fn = "save"
    /\ dbResult.value = "null"

\* C28: whenever a function of the persistence layer has returned, every
\* client it connected has been closed.
C28_ClientsClosedOnReturn ==
    dbCall = Null => clients = 0

\* C27: the request uploadImageToBackend builds carries the image in the
\* field the backend reads and, unless the database fails, is answered with
\* status 200 and a JSON body carrying storageUrl; every error answer is a
\* JSON body with an error field.
C27_UploadAccepted ==
    /\ (request # Null /\ request.client = "form") =>
            request.field = UploadField
    /\ (answer # Null /\ answer.status # 200) =>
            answer.json /\ answer.error
    /\ (answer # Null /\ request.client = "form") =>
            /\ answer.json
            /\ answer.status # 400
            /\ answer.status = 200 =>
                   request.file # 0 /\ UploadResult(answer) = request.file

\* C30: after an error answer of POST /upload-image the upload directory
\* and the images table are what they were when the request arrived.
C30_ErrorLeavesNoTrace ==
    (answer # Null /\ answer.status # 200) =>
        /\ uploadDir = request.dirBefore
        /\ imageRows = request.rowsBefore

\* sq is what is left of longer when its newest entries are taken away.
IsTail(sq, longer) ==
    /\ Len(sq) <= Len(longer)
    /\ sq = SubSeq(longer, Len(longer) - Len(sq) + 1, Len(longer))

\* C23: once loaded, the gallery only grows at its front, never holds more
\* than MAX_GALLERY_IMAGES entries, and is left alone by an add that finds it
\* full, also when two adds overlap.
C23_GalleryAppendOnly ==
    [][galleryPc = "loaded" =>
          /\ Len(galleryImages') <= MAX_GALLERY_IMAGES
          /\ IsTail(galleryImages, galleryImages')
          /\ Len(galleryImages) >= MAX_GALLERY_IMAGES =>
                 galleryImages' = galleryImages]_vars

\* |a - b|
Distance(a, b) == IF a >= b THEN a - b ELSE b - a

\* C24: a drag of the resize handle by dx gives the width at pointer-down
\* plus dx, unless a bound holds it back, and the height the aspect ratio of
\* the image gives; both stay within the container and at 50 or more, and
\* width : height is the aspect ratio of the image up to rounding.
C24_ResizeDragKeepsAspect ==
    [][\A dx \in DragOffsets, dy \in DragOffsets :
          (/\ drag # Null
           /\ MouseMove(dx, dy)
           /\ ~(drag.isCropping /\ drag.initialCrop # Null)
           /\ drag.isResizing
           /\ drag.originalImageDimensions # Null) =>
              LET od == drag.originalImageDimensions
                  d == displayDimensions'
              IN  /\ d.width >= 50 /\ d.width <= ContainerWidth
                  /\ d.height >= 50 /\ d.height <= ContainerHeight
                  /\ \/ d.width = drag.initialResizeDims.width + dx
                     \/ d.width \in {50, ContainerWidth}
                     \/ d.height \in {50, ContainerHeight}
                  /\ \/ 2 * Distance(d.height * od.width, d.width * od.height)
                           <= od.width
                     \/ 2 * Distance(d.width * od.height, d.height * od.width)
                           <= od.height]_vars

\* C25: pointer-down, pointer-move and pointer-up leave the current image,
\* its recorded size and source, the modes and the pending rasterizations
\* and image loads alone; pointer-up ends the session, and while no session
\* is open no pointer-move acts.
C25_DragSessionOnlyMovesRegion ==
    [][/\ \/ UNCHANGED <<generatedImageBlobUrl, currentDisplayUrl, objectUrlRef,
                         originalImageDimensions, isCropping, isResizing,
                         rasterizations, imageLoads, isLoading>>
          \/ ~(\/ \E h \in CornerHandles \cup {"resize"} : MouseDown(h)
               \/ \E dx \in DragOffsets, dy \in DragOffsets : MouseMove(dx, dy)
               \/ MouseUp)
       /\ (drag # Null /\ drag' # drag) => drag' = Null
       /\ \/ drag # Null
          \/ ~(\E dx \in DragOffsets, dy \in DragOffsets : MouseMove(dx, dy))]_vars

\* A released drag of the resize handle left the image at 50x50, with no
\* rasterization started.
C25_ResizeDragReleased ==
    /\ drag = Null
    /\ isResizing
    /\ currentDisplayUrl # Null
    /\ displayDimensions = [width |-> 50, height |-> 50]
    /\ rasterizations = <<>>

\* The generation requests in flight.
Generating == {s \in submits : s.pc = "generating"}

\* C26: at most one generation request is in flight, and the loading flag
\* is set while one is.
C26_OneGenerationWhileLoading ==
    /\ Cardinality(Generating) <= 1
    /\ Generating # {} => isLoading

\* C29: crop mode is on exactly when a crop region exists, resize mode is on
\* exactly when a resize handle exists, and a mode is on only while a
\* current image is present.
C29_ModesAgreeWithData ==
    /\ isCropping <=> cropArea # Null
    /\ isResizing <=> resizeHandle # Null
    /\ (isCropping \/ isResizing) => currentDisplayUrl # Null

=============================================================================
